---------------------------- MODULE Spec2Model ----------------------------
(***************************************************************************)
(* Department selection application: the relational store (models.py) and  *)
(* the request handlers of routers/api.py that read and write it.  Every   *)
(* handler runs in one SQLAlchemy session (database.py get_db): its writes *)
(* reach the store only at db.commit(); an exception raised before that    *)
(* closes the session and rolls everything back.                           *)
(***************************************************************************)
EXTENDS Integers, Sequences, FiniteSets, TLC

VARIABLES
    categories,          \* table categories:  id -> [name, max_selections]
    departments,         \* table departments: id -> [name, category_id]
    members,             \* table members:     id -> [full_name, phone, email, address]
    member_departments,  \* table member_departments: id -> selection row
    appeals,             \* table appeals:     id -> appeal row
    settings,            \* table settings:    key -> value
    seq,                 \* the serial primary-key counters of the three growing tables
    now,                 \* the clock datetime.now() reads
    response,            \* the last request served and the answer it got
    inflight             \* assign requests past their checks, not yet committed

db == <<categories, departments, members, member_departments, appeals, settings>>
vars == <<categories, departments, members, member_departments, appeals, settings,
          seq, now, response, inflight>>

----------------------------------------------------------------------------
(* Bounds of the model.                                                    *)

MaxMembers == 2      \* members ever created in a behaviour
MaxRows == 3         \* member_departments rows ever created
MaxAppeals == 1      \* appeals ever created
MaxClock == 2        \* readings of datetime.now()

----------------------------------------------------------------------------
(* Column values.                                                          *)

NoId == 0            \* a NULL integer column (ids are serial, from 1)
NoTime == 0          \* a NULL timestamp column (the clock starts at 1)
None == "<None>"     \* a NULL string column / an Optional field left out

Digits == {"0", "1", "2", "3", "4", "5", "6", "7", "8", "9"}

\* Phone numbers are strings; the model writes them as sequences of characters.
Phone10 == <<"0", "7", "1", "1", "2", "3", "4", "4", "5", "6">>
Phone10Fmt == <<"0", "7", "1", "1", " ", "2", "3", "4", "-", "4", "5", "6">>
Phone10B == <<"0", "7", "2", "2", "2", "3", "4", "4", "5", "6">>
Phone9 == <<"0", "7", "1", "1", "2", "3", "4", "4", "5">>
Phone11 == <<"0", "7", "1", "1", "2", "3", "4", "4", "5", "6", "7">>
PhoneAlpha == <<"0", "7", "1", "1", "2", "3", "4", "4", "5", "x">>
PhoneTab == <<"0", "7", "1", "1", "\t", "2", "3", "4", "4", "5", "6">>
Blank == <<>>

\* re.sub(r'\D', '', phone); len(digits) == 10
validate_phone(phone) ==
    Len(SelectSeq(phone, LAMBDA c : c \in Digits)) = 10

\* int(max_setting.value) on the values the model stores; anything else raises
\* ValueError.
IsNumeral(s) == s \in {"0", "1", "2", "3", "4"}
int(s) == CASE s = "0" -> 0 [] s = "1" -> 1 [] s = "2" -> 2 [] s = "3" -> 3 [] s = "4" -> 4

Range(f) == {f[i] : i \in DOMAIN f}

\* The table without the rows whose ids are in ids.
Without(table, ids) == [i \in DOMAIN table \ ids |-> table[i]]

----------------------------------------------------------------------------
(* Store constraints (models.py).  A flush that would break one raises     *)
(* IntegrityError, which no handler catches: the request ends in a 500 and *)
(* the session is rolled back.                                             *)

\* UniqueConstraint("member_id", "department_id")
unique_member_department_off(mds) == TRUE

unique_member_department(mds) ==
    \A i, j \in DOMAIN mds :
        (mds[i].member_id = mds[j].member_id
            /\ mds[i].department_id = mds[j].department_id) => i = j

\* ForeignKey columns of member_departments
member_departments_fk(mds, mems, depts) ==
    \A i \in DOMAIN mds :
        /\ mds[i].member_id \in DOMAIN mems
        /\ mds[i].department_id \in DOMAIN depts
        /\ mds[i].replaced_by_id \in DOMAIN mds \cup {NoId}

IntegrityOk(mds, mems, depts) ==
    unique_member_department(mds) /\ member_departments_fk(mds, mems, depts)

----------------------------------------------------------------------------
(* Responses.                                                              *)

Detail(text, n, name) == [text |-> text, n |-> n, name |-> name]

Answer(op, args, code, detail) ==
    [op |-> op, args |-> args, code |-> code, detail |-> detail]

Ok == Detail("success", 0, "")
OkId(id) == Detail("success", id, "")
ServerError(what) == Detail(what, 0, "")

MsgRequired == Detail("Full name, phone, and address are required", 0, "")
MsgPhone == Detail("Phone number must be 10 digits (e.g., 0711234456)", 0, "")
MsgEmpty == Detail("Please select at least one department", 0, "")
MsgTooMany(n) == Detail("You can only select up to {n} departments", n, "")
MsgCategory(n, name) ==
    Detail("You can only select up to {n} department(s) from '{name}'", n, name)

----------------------------------------------------------------------------
(* Rows as the handlers create them.                                       *)

\* MemberDepartment(member_id=..., department_id=...): source and status take
\* their server defaults, the other workflow columns are NULL.
NewSelection(member_id, department_id) ==
    [member_id |-> member_id, department_id |-> department_id,
     source |-> "member", status |-> "pending", replaced_by_id |-> NoId,
     admin_note |-> None, status_changed_at |-> NoTime]

\* A bug to compare with: the row an administrator adds is not stamped.
AdminSelection_unstamped(member_id, department_id, note) ==
    [member_id |-> member_id, department_id |-> department_id,
     source |-> "admin", status |-> "approved", replaced_by_id |-> NoId,
     admin_note |-> note, status_changed_at |-> NoTime]

\* MemberDepartment(..., source="admin", status="approved", admin_note=note,
\* status_changed_at=datetime.now())
AdminSelection(member_id, department_id, note) ==
    [member_id |-> member_id, department_id |-> department_id,
     source |-> "admin", status |-> "approved", replaced_by_id |-> NoId,
     admin_note |-> note, status_changed_at |-> now]

\* The rows a handler adds for the list selected, in list order, with the next
\* serial ids.
FreshRows(member_id, selected) ==
    [i \in (seq.member_departments + 1)..(seq.member_departments + Len(selected)) |->
        NewSelection(member_id, selected[i - seq.member_departments])]

RowsOf(member_id) ==
    {i \in DOMAIN member_departments : member_departments[i].member_id = member_id}

\* The request ends in an error before db.commit(): nothing is written.
Reject(op, args, e) ==
    /\ response' = Answer(op, args, e.code, e.detail)
    /\ UNCHANGED <<db, seq, now>>

Error(code, detail) == [code |-> code, detail |-> detail]

----------------------------------------------------------------------------
(* The quota checks, written out twice in the source: in submit_form and   *)
(* in update_member.                                                       *)

HasSetting(key) == key \in DOMAIN settings

\* int(max_setting.value) if max_setting else 3
max_departments ==
    IF HasSetting("maxDepartments") THEN int(settings["maxDepartments"]) ELSE 3

MaxDepartmentsParses ==
    HasSetting("maxDepartments") => IsNumeral(settings["maxDepartments"])

\* category_selections: category id -> the selected departments of that category.
\* The query Department.id.in_(selected) returns each existing department once;
\* a department whose category_id is NULL is skipped.
category_selections(selected) ==
    LET depts == Range(selected) \cap DOMAIN departments
        cats == {departments[d].category_id : d \in depts} \ {NoId}
    IN  [c \in cats |-> {d \in depts : departments[d].category_id = c}]

\* category.max_selections if category else 1
max_allowed_one(category_id) == 1

max_allowed(category_id) ==
    IF category_id \in DOMAIN categories
    THEN categories[category_id].max_selections
    ELSE 1

\* The errors the per-category loop can raise.  The loop stops at the first
\* category over its limit; the order of the categories is that of the rows of
\* a query without ORDER BY, so any category over its limit can be the first.
CategoryErrors(selected) ==
    LET cs == category_selections(selected)
    IN  {IF c \in DOMAIN categories
         THEN Error(400, MsgCategory(max_allowed(c), categories[c].name))
         ELSE Error(500, ServerError("AttributeError"))
         : c \in {k \in DOMAIN cs : Cardinality(cs[k]) > max_allowed(k)}}

\* A bug to compare with: the check for an empty selection is missing.
submit_check_without_empty(data) ==
    IF data.full_name = "" \/ data.phone = Blank \/ data.address = ""
    THEN {Error(400, MsgRequired)}
    ELSE IF ~validate_phone(data.phone)
    THEN {Error(400, MsgPhone)}
    ELSE IF ~MaxDepartmentsParses
    THEN {Error(500, ServerError("ValueError"))}
    ELSE IF Len(data.selected_departments) > max_departments
    THEN {Error(400, MsgTooMany(max_departments))}
    ELSE CategoryErrors(data.selected_departments)

\* submit_form up to the creation of the member: the errors it can end in
\* (none: the member is created).
submit_check(data) ==
    IF data.full_name = "" \/ data.phone = Blank \/ data.address = ""
    THEN {Error(400, MsgRequired)}
    ELSE IF ~validate_phone(data.phone)
    THEN {Error(400, MsgPhone)}
    ELSE IF Len(data.selected_departments) = 0
    THEN {Error(400, MsgEmpty)}
    ELSE IF ~MaxDepartmentsParses
    THEN {Error(500, ServerError("ValueError"))}
    ELSE IF Len(data.selected_departments) > max_departments
    THEN {Error(400, MsgTooMany(max_departments))}
    ELSE CategoryErrors(data.selected_departments)

\* update_member's checks of selected_departments.
update_check(selected) ==
    IF ~MaxDepartmentsParses
    THEN {Error(500, ServerError("ValueError"))}
    ELSE IF Len(selected) > max_departments
    THEN {Error(400, MsgTooMany(max_departments))}
    ELSE CategoryErrors(selected)

----------------------------------------------------------------------------
(* POST /submit                                                            *)

submit_form(data) ==
    LET errs == submit_check(data)
        mid == seq.members + 1
        selected == data.selected_departments
        mems == members @@ (mid :> [full_name |-> data.full_name,
                                    phone |-> data.phone,
                                    email |-> data.email,
                                    address |-> data.address])
        mds == member_departments @@ FreshRows(mid, selected)
    IN  IF errs # {}
        THEN \E e \in errs : Reject("submit_form", data, e)
        ELSE IF ~IntegrityOk(mds, mems, departments)
        THEN Reject("submit_form", data, Error(500, ServerError("IntegrityError")))
        ELSE /\ members' = mems
             /\ member_departments' = mds
             /\ seq' = [seq EXCEPT !.members = mid,
                                   !.member_departments = @ + Len(selected)]
             /\ response' = Answer("submit_form", data, 200, OkId(mid))
             /\ UNCHANGED <<categories, departments, appeals, settings, now>>

----------------------------------------------------------------------------
(* PUT /members/{member_id}                                                *)

\* The member with the patch's basic fields assigned.
Patched(member, data) ==
    [member EXCEPT
        !.full_name = IF "full_name" \in DOMAIN data THEN data.full_name ELSE @,
        !.email = IF "email" \in DOMAIN data THEN data.email ELSE @,
        !.address = IF "address" \in DOMAIN data THEN data.address ELSE @]

\* A bug to compare with: the basic fields are committed before the checks.
update_member_rejected_early_commit(member_id, data, e) ==
    /\ members' = [members EXCEPT ![member_id] = Patched(@, data)]
    /\ response' = Answer("update_member", [member_id |-> member_id, data |-> data],
                          e.code, e.detail)
    /\ UNCHANGED <<categories, departments, member_departments, appeals, settings,
                   seq, now>>

\* HTTPException raised inside the selected_departments branch: the assignments
\* made to the member object are never committed.
update_member_rejected(member_id, data, e) ==
    Reject("update_member", [member_id |-> member_id, data |-> data], e)

\* A bug to compare with: only the rows still pending are deleted.
update_member_rows_keep_reviewed(member_id, selected) ==
    Without(member_departments,
            {i \in RowsOf(member_id) : member_departments[i].status = "pending"})
        @@ FreshRows(member_id, selected)

\* The table after the delete of the member's rows and the inserts.
update_member_rows(member_id, selected) ==
    Without(member_departments, RowsOf(member_id)) @@ FreshRows(member_id, selected)

update_member(member_id, data) ==
    LET args == [member_id |-> member_id, data |-> data]
    IN  IF member_id \notin DOMAIN members
        THEN Reject("update_member", args, Error(404, Detail("Member not found", 0, "")))
        ELSE IF "selected_departments" \in DOMAIN data
        THEN LET selected == data.selected_departments
                 errs == update_check(selected)
                 mds == update_member_rows(member_id, selected)
             IN  IF errs # {}
                 THEN \E e \in errs : update_member_rejected(member_id, data, e)
                 ELSE IF ~IntegrityOk(mds, members, departments)
                 THEN Reject("update_member", args,
                             Error(500, ServerError("IntegrityError")))
                 ELSE /\ members' = [members EXCEPT ![member_id] = Patched(@, data)]
                      /\ member_departments' = mds
                      /\ seq' = [seq EXCEPT !.member_departments = @ + Len(selected)]
                      /\ response' = Answer("update_member", args, 200, OkId(member_id))
                      /\ UNCHANGED <<categories, departments, appeals, settings, now>>
        ELSE /\ members' = [members EXCEPT ![member_id] = Patched(@, data)]
             /\ response' = Answer("update_member", args, 200, OkId(member_id))
             /\ UNCHANGED <<categories, departments, member_departments, appeals,
                            settings, seq, now>>

----------------------------------------------------------------------------
(* PUT /settings and PUT /categories                                       *)

update_setting(data) ==
    IF data.key = ""
    THEN Reject("update_setting", data,
                Error(400, Detail("Key and value are required", 0, "")))
    ELSE /\ settings' = [k \in DOMAIN settings \cup {data.key} |->
                            IF k = data.key THEN data.value ELSE settings[k]]
         /\ response' = Answer("update_setting", data, 200, Ok)
         /\ UNCHANGED <<categories, departments, members, member_departments,
                        appeals, seq, now>>

update_category(data) ==
    IF data.id = 0 \/ data.name = ""
    THEN Reject("update_category", data,
                Error(400, Detail("ID and name are required", 0, "")))
    ELSE IF data.id \notin DOMAIN categories
    THEN Reject("update_category", data,
                Error(404, Detail("Category not found", 0, "")))
    ELSE /\ categories' = [categories EXCEPT
                              ![data.id] = [name |-> data.name,
                                            max_selections |-> data.max_selections]]
         /\ response' = Answer("update_category", data, 200, OkId(data.id))
         /\ UNCHANGED <<departments, members, member_departments, appeals,
                        settings, seq, now>>

----------------------------------------------------------------------------
(* PUT /admin/reviews/{member_department_id}                               *)

\* A bug to compare with: any status is written as given.
ReviewStatuses_any == {"approved", "rejected", "pending", ""}

\* data.status not in ["approved", "rejected"] -> 400
ReviewStatuses == {"approved", "rejected"}

update_review_status(member_department_id, data) ==
    LET args == [member_department_id |-> member_department_id, data |-> data]
    IN  IF member_department_id \notin DOMAIN member_departments
        THEN Reject("update_review_status", args,
                    Error(404, Detail("Selection not found", 0, "")))
        ELSE IF data.status \notin ReviewStatuses
        THEN Reject("update_review_status", args,
                    Error(400, Detail("Status must be 'approved' or 'rejected'", 0, "")))
        ELSE /\ member_departments' =
                    [member_departments EXCEPT ![member_department_id] =
                        [@ EXCEPT !.status = data.status,
                                  !.admin_note = data.admin_note,
                                  !.status_changed_at = now]]
             /\ now' = now + 1
             /\ response' = Answer("update_review_status", args, 200,
                                   OkId(member_department_id))
             /\ UNCHANGED <<categories, departments, members, appeals, settings, seq>>

----------------------------------------------------------------------------
(* POST /admin/reviews/{member_department_id}/replace                      *)

ReplacedWith(name) == Detail("Replaced with {name}", 0, name).text \o name
ReplacementFor(name) == Detail("Replacement for {name}", 0, name).text \o name

\* data.admin_note or f"Replaced with {new_dept.name}"
NoteOr(note, default) == IF note = None \/ note = "" THEN default ELSE note

\* A bug to compare with: the replacement is linked back to the original.
replace_department_rows_linked_back(member_department_id, data) ==
    LET md == member_departments[member_department_id]
        new_id == seq.member_departments + 1
    IN  [member_departments EXCEPT
            ![member_department_id] =
                [@ EXCEPT !.status = "rejected",
                          !.admin_note = NoteOr(data.admin_note,
                              ReplacedWith(departments[data.new_department_id].name)),
                          !.status_changed_at = now,
                          !.replaced_by_id = new_id]]
        @@ (new_id :> [AdminSelection(md.member_id, data.new_department_id,
                            ReplacementFor(departments[md.department_id].name))
                       EXCEPT !.replaced_by_id = member_department_id])

\* The table as the handler leaves it in its session: the original rejected,
\* noted, stamped and linked to the new admin row.  (The two readings of
\* datetime.now() fall in one tick of the model's clock.)
replace_department_rows(member_department_id, data) ==
    LET md == member_departments[member_department_id]
        new_id == seq.member_departments + 1
    IN  [member_departments EXCEPT
            ![member_department_id] =
                [@ EXCEPT !.status = "rejected",
                          !.admin_note = NoteOr(data.admin_note,
                              ReplacedWith(departments[data.new_department_id].name)),
                          !.status_changed_at = now,
                          !.replaced_by_id = new_id]]
        @@ (new_id :> AdminSelection(md.member_id, data.new_department_id,
                          ReplacementFor(departments[md.department_id].name)))

replace_department(member_department_id, data) ==
    LET args == [member_department_id |-> member_department_id, data |-> data]
    IN  IF member_department_id \notin DOMAIN member_departments
        THEN Reject("replace_department", args,
                    Error(404, Detail("Selection not found", 0, "")))
        ELSE IF data.new_department_id \notin DOMAIN departments
        THEN Reject("replace_department", args,
                    Error(404, Detail("New department not found", 0, "")))
        ELSE LET mds == replace_department_rows(member_department_id, data)
             IN  IF ~IntegrityOk(mds, members, departments)
                 THEN Reject("replace_department", args,
                             Error(500, ServerError("IntegrityError")))
                 ELSE /\ member_departments' = mds
                      /\ seq' = [seq EXCEPT !.member_departments = @ + 1]
                      /\ now' = now + 1
                      /\ response' = Answer("replace_department", args, 200,
                                            OkId(seq.member_departments + 1))
                      /\ UNCHANGED <<categories, departments, members, appeals,
                                     settings>>

----------------------------------------------------------------------------
(* POST /admin/members/{member_id}/assign                                  *)

\* A bug to compare with: a rejected row does not count as assigned.
assign_department_checks_live_rows(member_id, data) ==
    IF member_id \notin DOMAIN members
    THEN {Error(404, Detail("Member not found", 0, ""))}
    ELSE IF data.department_id \notin DOMAIN departments
    THEN {Error(404, Detail("Department not found", 0, ""))}
    ELSE IF \E i \in RowsOf(member_id) :
                /\ member_departments[i].department_id = data.department_id
                /\ member_departments[i].status # "rejected"
    THEN {Error(400, Detail("Department already assigned to this member", 0, ""))}
    ELSE {}

\* The queries of the handler and what each of them refuses.
assign_department_checks(member_id, data) ==
    IF member_id \notin DOMAIN members
    THEN {Error(404, Detail("Member not found", 0, ""))}
    ELSE IF data.department_id \notin DOMAIN departments
    THEN {Error(404, Detail("Department not found", 0, ""))}
    ELSE IF \E i \in RowsOf(member_id) :
                member_departments[i].department_id = data.department_id
    THEN {Error(400, Detail("Department already assigned to this member", 0, ""))}
    ELSE {}

\* db.add(md); db.commit(): the insert, which the constraints of the table
\* can still refuse.
assign_department_insert(member_id, data) ==
    LET args == [member_id |-> member_id, data |-> data]
        new_id == seq.member_departments + 1
        mds == member_departments
                   @@ (new_id :> AdminSelection(member_id, data.department_id,
                                                data.admin_note))
    IN  IF ~IntegrityOk(mds, members, departments)
        THEN Reject("assign_department", args,
                    Error(500, ServerError("IntegrityError")))
        ELSE /\ member_departments' = mds
             /\ seq' = [seq EXCEPT !.member_departments = new_id]
             /\ now' = now + 1
             /\ response' = Answer("assign_department", args, 200, OkId(new_id))
             /\ UNCHANGED <<categories, departments, members, appeals, settings>>

assign_department(member_id, data) ==
    IF assign_department_checks(member_id, data) # {}
    THEN \E e \in assign_department_checks(member_id, data) :
            Reject("assign_department", [member_id |-> member_id, data |-> data], e)
    ELSE assign_department_insert(member_id, data)

----------------------------------------------------------------------------
(* POST /appeals and PUT /admin/appeals/{appeal_id}                        *)

Whitespace == {" ", "\t", "\n"}

RECURSIVE lstrip(_)
lstrip(s) == IF s # <<>> /\ Head(s) \in Whitespace THEN lstrip(Tail(s)) ELSE s

RECURSIVE rstrip(_)
rstrip(s) ==
    IF s # <<>> /\ s[Len(s)] \in Whitespace THEN rstrip(SubSeq(s, 1, Len(s) - 1)) ELSE s

\* phone.strip().replace(" ", "").replace("-", "")
normalize(phone) ==
    SelectSeq(rstrip(lstrip(phone)), LAMBDA c : c \notin {" ", "-"})

\* A bug to compare with: a setting that is absent counts as given.
SettingIs_or_absent(key, value) == HasSetting(key) => settings[key] = value

\* setting and setting.value == value
SettingIs(key, value) == HasSetting(key) /\ settings[key] = value

\* ForeignKey columns of appeals
appeals_fk(aps, mems, depts) ==
    \A i \in DOMAIN aps :
        /\ aps[i].member_id \in DOMAIN mems
        /\ aps[i].unwanted_department_id \in DOMAIN depts \cup {NoId}
        /\ aps[i].wanted_department_id \in DOMAIN depts \cup {NoId}

\* The members the request can be resolved to: the one named by member_id (none
\* if there is no such member), or any member whose phone matches, the first
\* of them in the order of a query without ORDER BY.
appeal_members(data) ==
    IF data.member_id # NoId
    THEN {data.member_id} \cap DOMAIN members
    ELSE {m \in DOMAIN members :
            normalize(members[m].phone) = normalize(data.phone)
                \/ members[m].phone = data.phone}

submit_appeal(data) ==
    IF ~SettingIs("resultsPublished", "true")
    THEN Reject("submit_appeal", data,
                Error(400, Detail("Results are not yet published", 0, "")))
    ELSE IF ~SettingIs("appealWindowOpen", "true")
    THEN Reject("submit_appeal", data,
                Error(400, Detail("Appeal window is currently closed", 0, "")))
    ELSE IF /\ data.member_id \in DOMAIN members
            /\ data.member_id # NoId
            /\ normalize(data.phone) # normalize(members[data.member_id].phone)
    THEN Reject("submit_appeal", data,
                Error(403, Detail("Phone number does not match member", 0, "")))
    ELSE IF appeal_members(data) = {}
    THEN Reject("submit_appeal", data, Error(404, Detail("Member not found", 0, "")))
    ELSE \E m \in appeal_members(data) :
            LET new_id == seq.appeals + 1
                aps == appeals @@ (new_id :>
                          [member_id |-> m,
                           unwanted_department_id |-> data.unwanted_department_id,
                           wanted_department_id |-> data.wanted_department_id,
                           reason |-> data.reason, status |-> "pending",
                           admin_response |-> None, resolved_at |-> NoTime])
            IN  IF ~appeals_fk(aps, members, departments)
                THEN Reject("submit_appeal", data,
                            Error(500, ServerError("IntegrityError")))
                ELSE /\ appeals' = aps
                     /\ seq' = [seq EXCEPT !.appeals = new_id]
                     /\ response' = Answer("submit_appeal", data, 200, OkId(new_id))
                     /\ UNCHANGED <<categories, departments, members,
                                    member_departments, settings, now>>

\* A bug to compare with: the row is rejected whatever its status.
appeal_remove_any_status(mds, appeal) ==
    [i \in DOMAIN mds |->
        IF /\ appeal.unwanted_department_id # NoId
           /\ mds[i].member_id = appeal.member_id
           /\ mds[i].department_id = appeal.unwanted_department_id
        THEN [mds[i] EXCEPT !.status = "rejected",
                            !.admin_note = "Removed via approved appeal",
                            !.status_changed_at = now]
        ELSE mds[i]]

\* The member's approved row for the unwanted department, rejected.
appeal_remove(mds, appeal) ==
    [i \in DOMAIN mds |->
        IF /\ appeal.unwanted_department_id # NoId
           /\ mds[i].member_id = appeal.member_id
           /\ mds[i].department_id = appeal.unwanted_department_id
           /\ mds[i].status = "approved"
        THEN [mds[i] EXCEPT !.status = "rejected",
                            !.admin_note = "Removed via approved appeal",
                            !.status_changed_at = now]
        ELSE mds[i]]

\* A bug to compare with: only a row that is approved counts as held.
appeal_add_unless_approved(mds, appeal) ==
    IF /\ appeal.wanted_department_id # NoId
       /\ ~\E i \in DOMAIN mds :
              /\ mds[i].member_id = appeal.member_id
              /\ mds[i].department_id = appeal.wanted_department_id
              /\ mds[i].status = "approved"
    THEN mds @@ ((seq.member_departments + 1) :>
                    AdminSelection(appeal.member_id, appeal.wanted_department_id,
                                   "Added via approved appeal"))
    ELSE mds

\* The wanted department added as an admin row unless the member has a row
\* for it already.
appeal_add(mds, appeal) ==
    IF /\ appeal.wanted_department_id # NoId
       /\ ~\E i \in DOMAIN mds :
              /\ mds[i].member_id = appeal.member_id
              /\ mds[i].department_id = appeal.wanted_department_id
    THEN mds @@ ((seq.member_departments + 1) :>
                    AdminSelection(appeal.member_id, appeal.wanted_department_id,
                                   "Added via approved appeal"))
    ELSE mds

\* A bug to compare with: the selections are changed whatever the decision.
resolve_appeal_rows_always(appeal, status) ==
    appeal_add(appeal_remove(member_departments, appeal), appeal)

\* if data.status == "approved": the table as the session leaves it.
resolve_appeal_rows(appeal, status) ==
    IF status = "approved"
    THEN appeal_add(appeal_remove(member_departments, appeal), appeal)
    ELSE member_departments

resolve_appeal(appeal_id, data) ==
    LET args == [appeal_id |-> appeal_id, data |-> data]
    IN  IF appeal_id \notin DOMAIN appeals
        THEN Reject("resolve_appeal", args, Error(404, Detail("Appeal not found", 0, "")))
        ELSE IF data.status \notin {"approved", "rejected"}
        THEN Reject("resolve_appeal", args,
                    Error(400, Detail("Status must be 'approved' or 'rejected'", 0, "")))
        ELSE LET appeal == appeals[appeal_id]
                 mds == resolve_appeal_rows(appeal, data.status)
             IN  IF ~IntegrityOk(mds, members, departments)
                 THEN Reject("resolve_appeal", args,
                             Error(500, ServerError("IntegrityError")))
                 ELSE /\ appeals' = [appeals EXCEPT ![appeal_id] =
                                        [@ EXCEPT !.status = data.status,
                                                  !.admin_response = data.admin_response,
                                                  !.resolved_at = now]]
                      /\ member_departments' = mds
                      /\ seq' = [seq EXCEPT !.member_departments =
                                    IF DOMAIN mds = DOMAIN member_departments
                                    THEN @ ELSE @ + 1]
                      /\ now' = now + 1
                      /\ response' = Answer("resolve_appeal", args, 200, OkId(appeal_id))
                      /\ UNCHANGED <<categories, departments, members, settings>>

----------------------------------------------------------------------------
(* POST /admin/publish, POST /admin/unpublish, POST /admin/appeals/window  *)

\* datetime.now().isoformat()
isoformat(t) == "T" \o ToString(t)

\* The settings with key set to value, the row added if there is none.
Upsert(key, value) ==
    [k \in DOMAIN settings \cup {key} |-> IF k = key THEN value ELSE settings[k]]

publish_results ==
    /\ settings' = [k \in DOMAIN settings \cup {"resultsPublished", "publishedAt"} |->
                       CASE k = "resultsPublished" -> "true"
                         [] k = "publishedAt" -> isoformat(now)
                         [] OTHER -> settings[k]]
    /\ now' = now + 1
    /\ response' = Answer("publish_results", <<>>, 200, Ok)
    /\ UNCHANGED <<categories, departments, members, member_departments, appeals, seq>>

\* A bug to compare with: the time of publication is cleared as well.
unpublish_results_clearing ==
    /\ settings' = [k \in DOMAIN settings |->
                       CASE k = "resultsPublished" -> "false"
                         [] k = "publishedAt" -> ""
                         [] OTHER -> settings[k]]
    /\ response' = Answer("unpublish_results", <<>>, 200, Ok)
    /\ UNCHANGED <<categories, departments, members, member_departments, appeals,
                   seq, now>>

\* Only a row that exists is written: without one the request changes nothing.
unpublish_results ==
    /\ settings' = IF HasSetting("resultsPublished")
                   THEN Upsert("resultsPublished", "false")
                   ELSE settings
    /\ response' = Answer("unpublish_results", <<>>, 200, Ok)
    /\ UNCHANGED <<categories, departments, members, member_departments, appeals,
                   seq, now>>

toggle_appeal_window(open) ==
    /\ settings' = Upsert("appealWindowOpen", IF open THEN "true" ELSE "false")
    /\ response' = Answer("toggle_appeal_window", [open |-> open], 200, Ok)
    /\ UNCHANGED <<categories, departments, members, member_departments, appeals,
                   seq, now>>

----------------------------------------------------------------------------
(* POST /admin/reviews/bulk-approve                                        *)

\* A bug to compare with: every row that is not approved is approved.
bulk_approve_targets_unapproved(mds) ==
    {i \in DOMAIN mds : mds[i].status # "approved"}

\* or_(MemberDepartment.status == "pending", MemberDepartment.status.is_(None))
bulk_approve_targets(mds) ==
    {i \in DOMAIN mds : mds[i].status \in {"pending", None}}

bulk_approve_pending ==
    LET targets == bulk_approve_targets(member_departments)
    IN  /\ member_departments' =
              [i \in DOMAIN member_departments |->
                  IF i \in targets
                  THEN [member_departments[i] EXCEPT !.status = "approved",
                                                     !.status_changed_at = now]
                  ELSE member_departments[i]]
        /\ now' = now + 1
        /\ response' = Answer("bulk_approve_pending", <<>>, 200,
                              Detail("success", Cardinality(targets), ""))
        /\ UNCHANGED <<categories, departments, members, appeals, settings, seq>>

----------------------------------------------------------------------------
(* POST /results/accept/{member_department_id}                             *)

AcceptedMark == " [Accepted by member]"

\* A bug to compare with: the acceptance is recorded in the source column.
accepted_in_source(md) ==
    [md EXCEPT !.source = "accepted",
               !.admin_note = (IF @ = None THEN "" ELSE @) \o AcceptedMark,
               !.status_changed_at = now]

\* md.admin_note = (md.admin_note or "") + " [Accepted by member]";
\* md.status_changed_at = datetime.now()
accepted(md) ==
    [md EXCEPT !.admin_note = (IF @ = None THEN "" ELSE @) \o AcceptedMark,
               !.status_changed_at = now]

\* A bug to compare with: the source of the row is not looked at.
accept_checks_any_source(member_department_id, phone) ==
    IF member_department_id \notin DOMAIN member_departments
    THEN {Error(404, Detail("Selection not found", 0, ""))}
    ELSE IF normalize(phone) #
                normalize(members[member_departments[member_department_id].member_id].phone)
    THEN {Error(403, Detail("Phone number does not match", 0, ""))}
    ELSE {}

\* The queries of the handler and what each of them refuses.
accept_checks(member_department_id, phone) ==
    IF member_department_id \notin DOMAIN member_departments
    THEN {Error(404, Detail("Selection not found", 0, ""))}
    ELSE IF normalize(phone) #
                normalize(members[member_departments[member_department_id].member_id].phone)
    THEN {Error(403, Detail("Phone number does not match", 0, ""))}
    ELSE IF member_departments[member_department_id].source # "admin"
    THEN {Error(400, Detail("This selection was not added by admin", 0, ""))}
    ELSE {}

accept_admin_assignment(member_department_id, phone) ==
    LET args == [member_department_id |-> member_department_id, phone |-> phone]
    IN  IF accept_checks(member_department_id, phone) # {}
        THEN \E e \in accept_checks(member_department_id, phone) :
                Reject("accept_admin_assignment", args, e)
        ELSE /\ member_departments' =
                    [member_departments EXCEPT
                        ![member_department_id] = accepted(@)]
             /\ now' = now + 1
             /\ response' = Answer("accept_admin_assignment", args, 200, Ok)
             /\ UNCHANGED <<categories, departments, members, appeals, settings, seq>>

----------------------------------------------------------------------------
(* GET /results                                                            *)

\* setting and setting.value == "true", as it is serialized: a bool, or the
\* None at which `and` stops when the row is missing.
setting_flag(key) ==
    IF ~HasSetting(key) THEN "null"
    ELSE IF settings[key] = "true" THEN "true" ELSE "false"

\* year_setting.value if year_setting else "2026"
selection_year ==
    IF HasSetting("selectionYear") THEN settings["selectionYear"] ELSE "2026"

\* The members the loop over all members keeps.
matching_members(phone) ==
    {m \in DOMAIN members :
        normalize(members[m].phone) = normalize(phone) \/ members[m].phone = phone}

\* One entry of selections.  md.status or "pending", md.source or "member"
selection(id) ==
    LET md == member_departments[id]
    IN  [id |-> id, department_id |-> md.department_id,
         status |-> IF md.status \in {None, ""} THEN "pending" ELSE md.status,
         source |-> IF md.source \in {None, ""} THEN "member" ELSE md.source,
         admin_note |-> md.admin_note]

\* [s for s in selections if s["status"] ...]: the entries of selections
\* whose status is one of statuses, by row id.
WithStatus(selections, statuses) ==
    [i \in {k \in DOMAIN selections : selections[k].status \in statuses} |->
        selections[i]]

\* A bug to compare with: every selection not rejected is listed as pending.
results_pending_unrejected(selections) ==
    WithStatus(selections, {"pending", "approved", None})

\* [s for s in selections if s["status"] == "pending" or s["status"] is None]
results_pending(selections) == WithStatus(selections, {"pending", None})

\* One entry of members_data.
member_data(m) ==
    LET selections == [i \in RowsOf(m) |-> selection(i)]
    IN  [id |-> m, full_name |-> members[m].full_name,
         all_selections |-> selections,
         approved_departments |-> WithStatus(selections, {"approved"}),
         pending_departments |-> results_pending(selections),
         rejected_departments |-> WithStatus(selections, {"rejected"}),
         admin_added_departments |->
            [i \in {k \in DOMAIN selections : selections[k].source = "admin"} |->
                selections[i]]]

\* The handler reads only; the lists of its answer are kept by id, the order
\* of a query without ORDER BY being any.
get_member_results(phone) ==
    /\ response' =
          [op |-> "get_member_results", args |-> [phone |-> phone], code |-> 200,
           detail |-> Ok,
           body |-> [published |-> setting_flag("resultsPublished"),
                     appeal_window_open |-> setting_flag("appealWindowOpen"),
                     year |-> selection_year,
                     members |-> [m \in matching_members(phone) |-> member_data(m)]]]
    /\ UNCHANGED <<db, seq, now>>

----------------------------------------------------------------------------
(* DELETE /members, DELETE /members/purge, DELETE /departments,            *)
(* DELETE /categories                                                      *)

\* The appeals a delete of members or of departments takes along: their
\* foreign keys are ON DELETE CASCADE, and Member.appeals cascades in the ORM.
AppealsOf(member_ids, department_ids) ==
    {a \in DOMAIN appeals :
        \/ appeals[a].member_id \in member_ids
        \/ appeals[a].unwanted_department_id \in department_ids
        \/ appeals[a].wanted_department_id \in department_ids}

\* db.delete(member): the member's selections and appeals are deleted with it.
delete_member(id) ==
    LET args == [id |-> id]
        mems == Without(members, {id})
        mds == Without(member_departments, RowsOf(id))
    IN  IF id = NoId
        THEN Reject("delete_member", args,
                    Error(400, Detail("Member ID is required", 0, "")))
        ELSE IF id \notin DOMAIN members
        THEN Reject("delete_member", args, Error(404, Detail("Member not found", 0, "")))
        ELSE IF ~IntegrityOk(mds, mems, departments)
        THEN Reject("delete_member", args, Error(500, ServerError("IntegrityError")))
        ELSE /\ members' = mems
             /\ member_departments' = mds
             /\ appeals' = Without(appeals, AppealsOf({id}, {}))
             /\ response' = Answer("delete_member", args, 200, Ok)
             /\ UNCHANGED <<categories, departments, settings, seq, now>>

\* db.query(MemberDepartment).delete(); db.query(Member).delete()
purge_all_members ==
    /\ member_departments' = Without(member_departments, DOMAIN member_departments)
    /\ members' = Without(members, DOMAIN members)
    /\ appeals' = Without(appeals, AppealsOf(DOMAIN members, {}))
    /\ response' = Answer("purge_all_members", <<>>, 200,
                          OkId(Cardinality(DOMAIN members)))
    /\ UNCHANGED <<categories, departments, settings, seq, now>>

\* A bug to compare with: the department goes, its selections stay.
department_rows_kept(id) == {}

\* Department.member_departments cascades: the rows deleted with the department.
department_rows(id) ==
    {i \in DOMAIN member_departments : member_departments[i].department_id = id}

\* db.delete(department).  A row of the department that a row of another
\* department names in replaced_by_id cannot be deleted: that foreign key has
\* no ON DELETE, the flush raises IntegrityError.
delete_department(id) ==
    LET args == [id |-> id]
        depts == Without(departments, {id})
        mds == Without(member_departments, department_rows(id))
    IN  IF id \notin DOMAIN departments
        THEN Reject("delete_department", args,
                    Error(404, Detail("Department not found", 0, "")))
        ELSE IF ~IntegrityOk(mds, members, depts)
        THEN Reject("delete_department", args,
                    Error(500, ServerError("IntegrityError")))
        ELSE /\ departments' = depts
             /\ member_departments' = mds
             /\ appeals' = Without(appeals, AppealsOf({}, {id}))
             /\ response' = Answer("delete_department", args, 200, Ok)
             /\ UNCHANGED <<categories, members, settings, seq, now>>

\* db.delete(category): Category.departments has no delete cascade, the
\* departments of the category get category_id NULL.
delete_category(id) ==
    LET args == [id |-> id]
    IN  IF id \notin DOMAIN categories
        THEN Reject("delete_category", args,
                    Error(404, Detail("Category not found", 0, "")))
        ELSE /\ categories' = Without(categories, {id})
             /\ departments' =
                    [d \in DOMAIN departments |->
                        IF departments[d].category_id = id
                        THEN [departments[d] EXCEPT !.category_id = NoId]
                        ELSE departments[d]]
             /\ response' = Answer("delete_category", args, 200, Ok)
             /\ UNCHANGED <<members, member_departments, appeals, settings, seq, now>>

----------------------------------------------------------------------------
(* The quota specification: submissions and updates of every shape against *)
(* a catalogue whose caps the administrator changes.                       *)

RECURSIVE SetToSeq(_)
SetToSeq(S) ==
    IF S = {} THEN <<>>
    ELSE LET m == CHOOSE x \in S : \A y \in S : x <= y
         IN  <<m>> \o SetToSeq(S \ {m})

\* settings as seed_database writes them
SeededSettings ==
    [k \in {"maxDepartments", "adminPassword", "deskPassword", "resultsPublished",
            "publishedAt", "appealWindowOpen", "selectionYear"} |->
        CASE k = "maxDepartments" -> "3"
          [] k = "adminPassword" -> "admin123"
          [] k = "deskPassword" -> "desk123"
          [] k = "resultsPublished" -> "false"
          [] k = "publishedAt" -> ""
          [] k = "appealWindowOpen" -> "false"
          [] k = "selectionYear" -> "2026"]

NoSettings == [k \in {} |-> ""]
NoRows == [i \in {} |-> 0]

Startup == Answer("startup", <<>>, 200, Ok)

\* Two categories of two departments each and one department without category.
QuotaCategories ==
    (1 :> [name |-> "Music", max_selections |-> 1])
        @@ (2 :> [name |-> "Outreach", max_selections |-> 1])

QuotaDepartments ==
    (1 :> [name |-> "Choir", category_id |-> 1])
        @@ (2 :> [name |-> "Praise Team", category_id |-> 1])
        @@ (3 :> [name |-> "Evangelism Team", category_id |-> 2])
        @@ (4 :> [name |-> "Community Service", category_id |-> 2])
        @@ (5 :> [name |-> "Ushering", category_id |-> NoId])

QuotaInit ==
    /\ categories = QuotaCategories
    /\ departments = QuotaDepartments
    /\ members = NoRows
    /\ member_departments = NoRows
    /\ appeals = NoRows
    /\ settings \in {NoSettings, SeededSettings}
    /\ seq = [members |-> 0, member_departments |-> 0, appeals |-> 0]
    /\ now = 1
    /\ response = Startup
    /\ inflight = {}

\* Lists of department ids a request can carry: every set of existing
\* departments (in id order), a list naming one department twice, and a list
\* naming a department that does not exist.
QuotaSelections ==
    {SetToSeq(S) : S \in SUBSET DOMAIN QuotaDepartments} \cup {<<1, 1>>, <<6>>}

\* Submissions: every selection with the other fields valid, and every way of
\* getting the other fields wrong with an empty and a non-empty selection.
QuotaSubmissions ==
    [full_name : {"Ann"}, phone : {Phone10}, email : {""},
     address : {"Hill Rd"}, selected_departments : QuotaSelections]
        \cup [full_name : {"", "Ann"}, phone : {Blank, Phone10, Phone9}, email : {""},
              address : {"", "Hill Rd"}, selected_departments : {<<>>, <<5>>}]

QuotaMaxMembers == 1

\* The bound caps the members created, not the requests that are refused.
QuotaSubmit ==
    \E data \in QuotaSubmissions :
        /\ submit_check(data) = {} => seq.members < QuotaMaxMembers
        /\ submit_form(data)
        /\ UNCHANGED inflight

QuotaSetMax ==
    \E v \in {"1", "4"} :
        /\ update_setting([key |-> "maxDepartments", value |-> v])
        /\ UNCHANGED inflight

QuotaSetCap ==
    \E c \in DOMAIN categories, n \in 1..2 :
        /\ update_category([id |-> c, name |-> categories[c].name,
                            max_selections |-> n])
        /\ UNCHANGED inflight

QuotaNext == QuotaSubmit \/ QuotaSetMax \/ QuotaSetCap

SpecQuota == QuotaInit /\ [][QuotaNext]_vars

----------------------------------------------------------------------------
(* The update specification: one member, whose selections are replaced by  *)
(* updates of every shape, against the same catalogue.                     *)

UpdateSubmissions ==
    [full_name : {"Ann"}, phone : {Phone10}, email : {""},
     address : {"Hill Rd"}, selected_departments : {<<5>>, <<1, 3>>}]

UpdatePatches ==
    {[selected_departments |-> sel] : sel \in QuotaSelections}
        \cup {[full_name |-> "Bea", email |-> "bea@x.org", address |-> "Lake Rd",
               selected_departments |-> sel] : sel \in {<<>>, <<5>>, <<1, 2>>}}
        \cup {[full_name |-> "Bea"]}

UpdateMaxRows == 3

UpdateSubmit ==
    \E data \in UpdateSubmissions :
        /\ submit_check(data) = {} => seq.members < QuotaMaxMembers
        /\ submit_form(data)
        /\ UNCHANGED inflight

\* The bound caps the rows created, not the requests that are refused.
UpdateMember ==
    \E member_id \in 1..(QuotaMaxMembers + 1), data \in UpdatePatches :
        /\ ("selected_departments" \in DOMAIN data
                /\ update_check(data.selected_departments) = {}) =>
              seq.member_departments + Len(data.selected_departments) <= UpdateMaxRows
        /\ member_id \notin DOMAIN members =>
              data \in {[full_name |-> "Bea"], [selected_departments |-> <<5>>]}
        /\ update_member(member_id, data)
        /\ UNCHANGED inflight

UpdateNext == UpdateSubmit \/ UpdateMember \/ QuotaSetMax \/ QuotaSetCap

SpecUpdate == QuotaInit /\ [][UpdateNext]_vars

----------------------------------------------------------------------------
(* Properties of the quota checks.                                         *)

\* What the claims call a proposal: the list as a set of existing departments.
IsSetOfDepartments(selected) ==
    /\ \A i, j \in DOMAIN selected : selected[i] = selected[j] => i = j
    /\ \A i \in DOMAIN selected : selected[i] \in DOMAIN departments

DigitCount(phone) == Cardinality({i \in DOMAIN phone : phone[i] \in Digits})

FieldsValid(data) ==
    /\ data.full_name # "" /\ data.phone # Blank /\ data.address # ""
    /\ DigitCount(data.phone) = 10

GlobalCap == IF "maxDepartments" \in DOMAIN settings
             THEN int(settings["maxDepartments"]) ELSE 3

CountIn(S, c) == Cardinality({d \in S : departments[d].category_id = c})

OverCap(S) == {c \in DOMAIN categories : CountIn(S, c) > categories[c].max_selections}

\* C1: a submission whose other fields are valid and whose selection is a
\* non-empty set S of existing departments is accepted exactly when |S| is
\* within the global cap and no category holds more departments of S than its
\* max_selections (departments without category count nowhere).  Beyond the
\* global cap the answer is the 'up to G departments' message; within it and
\* beyond a category cap, the message naming a category that S overfills.
C1_QuotaDecision ==
    (/\ response.op = "submit_form"
     /\ FieldsValid(response.args)
     /\ response.args.selected_departments # <<>>
     /\ IsSetOfDepartments(response.args.selected_departments)) =>
        LET S == Range(response.args.selected_departments)
        IN  /\ response.code = 200 <=> (Cardinality(S) <= GlobalCap /\ OverCap(S) = {})
            /\ Cardinality(S) > GlobalCap =>
                  /\ response.code = 400
                  /\ response.detail = MsgTooMany(GlobalCap)
            /\ (Cardinality(S) <= GlobalCap /\ OverCap(S) # {}) =>
                  /\ response.code = 400
                  /\ \E c \in OverCap(S) :
                        response.detail = MsgCategory(categories[c].max_selections,
                                                      categories[c].name)

\* A submission of three departments, within the global cap, refused for
\* Outreach while a department without category is part of it.
C1_Witness ==
    /\ response.op = "submit_form"
    /\ response.code = 400
    /\ response.args.selected_departments = <<3, 4, 5>>
    /\ response.detail.name = "Outreach"

\* What submit_form answers for the list selected when the other fields are valid.
ValidSubmission(selected) ==
    [full_name |-> "Ann", phone |-> Phone10, email |-> "", address |-> "Hill Rd",
     selected_departments |-> selected]

\* C2: an update of an existing member with selected_departments = S is
\* refused as a validation error exactly when submit_form refuses S as one,
\* and accepted exactly when submit_form accepts S.
C2_UpdateValidatesAsSubmit ==
    (/\ response.op = "update_member"
     /\ response.args.member_id \in DOMAIN members
     /\ "selected_departments" \in DOMAIN response.args.data) =>
        LET S == response.args.data.selected_departments
            submit == submit_check(ValidSubmission(S))
        IN  /\ response.code = 400 <=> (\E e \in submit : e.code = 400)
            /\ response.code = 200 <=> (submit = {} /\ IsSetOfDepartments(S))

\* C3: a submission that fails writes no member and no selection; an empty
\* selection fails whatever the other fields are; and each kind of failure
\* (required field missing, phone without exactly 10 digits, empty selection,
\* global cap, category cap) has a message of its own.
C3_FailureMessages ==
    Cardinality({MsgRequired.text, MsgPhone.text, MsgEmpty.text,
                 MsgTooMany(0).text, MsgCategory(0, "").text}) = 5

C3_FailedSubmitWritesNothing ==
    [][response'.op = "submit_form" =>
        LET data == response'.args
            S == data.selected_departments
        IN  /\ response'.code # 200 =>
                  /\ members' = members
                  /\ member_departments' = member_departments
            /\ S = <<>> => response'.code = 400
            /\ (data.full_name = "" \/ data.phone = Blank \/ data.address = "") =>
                  (response'.code = 400 /\ response'.detail = MsgRequired)
            /\ (data.full_name # "" /\ data.phone # Blank /\ data.address # ""
                    /\ DigitCount(data.phone) # 10) =>
                  (response'.code = 400 /\ response'.detail = MsgPhone)
            /\ (FieldsValid(data) /\ S = <<>>) =>
                  (response'.code = 400 /\ response'.detail = MsgEmpty)
            /\ (FieldsValid(data) /\ S # <<>> /\ Len(S) > GlobalCap) =>
                  (response'.code = 400 /\ response'.detail.text = MsgTooMany(0).text)
            /\ (FieldsValid(data) /\ S # <<>> /\ Len(S) <= GlobalCap
                    /\ IsSetOfDepartments(S) /\ OverCap(Range(S)) # {}) =>
                  (response'.code = 400 /\ response'.detail.text = MsgCategory(0, "").text)
            /\ C3_FailureMessages
      ]_vars

\* An empty selection refused although every other field is valid, with a
\* member already in the store.
C3_Witness ==
    /\ response.op = "submit_form"
    /\ response.code = 400
    /\ response.detail = MsgEmpty
    /\ response.args.selected_departments = <<>>
    /\ members # NoRows

\* C4: an update whose selected_departments exceed the global cap or a
\* category cap is refused and changes nothing: the member's full_name, email
\* and address stay as they were, patch or no patch, and no selection of the
\* member is deleted or inserted.
C4_RejectedUpdateIsAtomic ==
    [][(/\ response'.op = "update_member"
        /\ response'.args.member_id \in DOMAIN members
        /\ "selected_departments" \in DOMAIN response'.args.data
        /\ LET S == response'.args.data.selected_departments
           IN  Len(S) > GlobalCap \/ OverCap(Range(S) \cap DOMAIN departments) # {}) =>
            /\ response'.code = 400
            /\ members' = members
            /\ member_departments' = member_departments
            /\ UNCHANGED <<categories, departments, appeals, settings>>
      ]_vars

\* A patch of all three basic fields refused for its selections, the member
\* still by the old name and still holding a selection.
C4_Witness ==
    /\ response.op = "update_member"
    /\ response.code = 400
    /\ "full_name" \in DOMAIN response.args.data
    /\ response.args.member_id \in DOMAIN members
    /\ members[response.args.member_id].full_name = "Ann"
    /\ RowsOf(response.args.member_id) # {}

----------------------------------------------------------------------------
(* The workflow specification: members submit and update, the              *)
(* administrator reviews, replaces and assigns, appeals are filed and      *)
(* resolved.  Results are published and the appeal window is open.         *)

WorkflowCategories == (1 :> [name |-> "Music", max_selections |-> 1])

WorkflowDepartments ==
    (1 :> [name |-> "Choir", category_id |-> 1])
        @@ (2 :> [name |-> "Praise Team", category_id |-> 1])
        @@ (3 :> [name |-> "Ushering", category_id |-> NoId])

\* The seeded settings after publish_results and toggle_appeal_window(open).
PublishedSettings ==
    [k \in DOMAIN SeededSettings |->
        CASE k = "resultsPublished" -> "true"
          [] k = "appealWindowOpen" -> "true"
          [] k = "publishedAt" -> "2026-01-01T00:00:00"
          [] OTHER -> SeededSettings[k]]

Init ==
    /\ categories = WorkflowCategories
    /\ departments = WorkflowDepartments
    /\ members = NoRows
    /\ member_departments = NoRows
    /\ appeals = NoRows
    /\ settings = PublishedSettings
    /\ seq = [members |-> 0, member_departments |-> 0, appeals |-> 0]
    /\ now = 1
    /\ response = Startup
    /\ inflight = {}

Submit ==
    \E sel \in {<<1>>, <<1, 3>>} :
        /\ seq.members < MaxMembers
        /\ seq.member_departments + Len(sel) <= MaxRows
        /\ submit_form(ValidSubmission(sel))
        /\ UNCHANGED inflight

Update ==
    \E member_id \in DOMAIN members, sel \in {<<>>, <<2>>, <<1, 2>>, <<2, 3>>} :
        /\ seq.member_departments + Len(sel) <= MaxRows
        /\ update_member(member_id, [selected_departments |-> sel])
        /\ UNCHANGED inflight

Review ==
    \E id \in 1..(seq.member_departments + 1),
       status \in {"approved", "rejected", "pending"} :
        /\ now <= MaxClock
        /\ update_review_status(id, [status |-> status, admin_note |-> None])
        /\ UNCHANGED inflight

Replace ==
    \E id \in 1..(seq.member_departments + 1), d \in 1..4 :
        /\ now <= MaxClock
        /\ seq.member_departments < MaxRows
        /\ replace_department(id, [new_department_id |-> d, admin_note |-> None])
        /\ UNCHANGED inflight

Assign ==
    \E member_id \in 1..(seq.members + 1), d \in 1..4 :
        /\ now <= MaxClock
        /\ seq.member_departments < MaxRows
        /\ assign_department(member_id, [department_id |-> d, admin_note |-> None])
        /\ UNCHANGED inflight

Appeal ==
    \E unwanted \in {NoId, 1}, wanted \in {NoId, 2, 3} :
        /\ seq.appeals < MaxAppeals
        /\ submit_appeal([phone |-> Phone10Fmt, member_id |-> NoId,
                          unwanted_department_id |-> unwanted,
                          wanted_department_id |-> wanted, reason |-> None])
        /\ UNCHANGED inflight

Resolve ==
    \E id \in 1..(seq.appeals + 1), status \in {"approved", "rejected", "pending"} :
        /\ now <= MaxClock
        /\ seq.member_departments < MaxRows
        /\ resolve_appeal(id, [status |-> status, admin_response |-> None])
        /\ UNCHANGED inflight

Next == Submit \/ Update \/ Review \/ Replace \/ Assign \/ Appeal \/ Resolve

Spec == Init /\ [][Next]_vars

----------------------------------------------------------------------------
(* The race specification: the handlers run in a thread pool, each on a     *)
(* session of its own, so the queries of one assign request and its commit *)
(* are two steps, between which any other request can be served.           *)

RaceMaxSessions == 2     \* assign requests in flight at the same time

RaceSubmit ==
    /\ seq.members < 1
    /\ submit_form(ValidSubmission(<<1>>))
    /\ UNCHANGED inflight

AssignBegin ==
    \E member_id \in DOMAIN members, d \in 1..3 :
        LET data == [department_id |-> d, admin_note |-> None]
            s == Cardinality(inflight) + 1
        IN  /\ s <= RaceMaxSessions
            /\ IF assign_department_checks(member_id, data) # {}
               THEN /\ assign_department(member_id, data)
                    /\ UNCHANGED inflight
               ELSE /\ inflight' = inflight \cup
                            {[session |-> s, member_id |-> member_id, data |-> data]}
                    /\ UNCHANGED <<db, seq, now, response>>

AssignCommit ==
    \E r \in inflight :
        /\ now <= MaxClock
        /\ seq.member_departments < MaxRows
        /\ assign_department_insert(r.member_id, r.data)
        /\ inflight' = {[q EXCEPT !.session = IF @ > r.session THEN @ - 1 ELSE @] :
                            q \in inflight \ {r}}

RaceNext ==
    \/ RaceSubmit \/ Update \/ Replace \/ Appeal \/ Resolve
    \/ AssignBegin \/ AssignCommit

SpecRace == Init /\ [][RaceNext]_vars

----------------------------------------------------------------------------
(* The desk specification: two members with phones written differently,    *)
(* reviewed and assigned by the administrator, who also approves in bulk;  *)
(* the members accept what was assigned to them.                           *)

DeskMaxMembers == 2      \* members ever created
DeskMaxRows == 3         \* member_departments rows ever created
DeskMaxClock == 4        \* readings of datetime.now()

DeskSubmit ==
    \E phone \in {Phone10Fmt, Phone10B} :
        /\ seq.members < DeskMaxMembers
        /\ seq.member_departments < DeskMaxRows
        /\ submit_form([ValidSubmission(<<1>>) EXCEPT !.phone = phone])
        /\ UNCHANGED inflight

DeskReview ==
    \E id \in DOMAIN member_departments, status \in {"approved", "rejected"} :
        /\ now <= DeskMaxClock
        /\ update_review_status(id, [status |-> status, admin_note |-> "seen"])
        /\ UNCHANGED inflight

DeskAssign ==
    \E member_id \in DOMAIN members :
        /\ now <= DeskMaxClock
        /\ seq.member_departments < DeskMaxRows
        /\ assign_department(member_id, [department_id |-> 2, admin_note |-> None])
        /\ UNCHANGED inflight

BulkApprove ==
    /\ now <= DeskMaxClock
    /\ bulk_approve_pending
    /\ UNCHANGED inflight

Accept ==
    \E id \in 1..(seq.member_departments + 1), phone \in {Phone10, Phone10B} :
        /\ now <= DeskMaxClock
        /\ accept_admin_assignment(id, phone)
        /\ UNCHANGED inflight

DeskNext == DeskSubmit \/ DeskReview \/ DeskAssign \/ BulkApprove \/ Accept

SpecDesk == Init /\ [][DeskNext]_vars

----------------------------------------------------------------------------
(* The gate specification: the administrator publishes, unpublishes, opens *)
(* and closes the appeal window and edits the settings, while a member     *)
(* files appeals.                                                          *)

GateMaxAppeals == 2      \* appeals ever created
GateMaxClock == 2        \* readings of datetime.now()

\* The settings run_migrations adds to a store that was never seeded.
MigratedSettings ==
    [k \in {"resultsPublished", "publishedAt", "appealWindowOpen", "selectionYear"} |->
        SeededSettings[k]]

GateInit ==
    /\ categories = WorkflowCategories
    /\ departments = WorkflowDepartments
    /\ members = NoRows
    /\ member_departments = NoRows
    /\ appeals = NoRows
    /\ settings \in {NoSettings, MigratedSettings, SeededSettings}
    /\ seq = [members |-> 0, member_departments |-> 0, appeals |-> 0]
    /\ now = 1
    /\ response = Startup
    /\ inflight = {}

GateSubmit ==
    /\ seq.members < 1
    /\ submit_form(ValidSubmission(<<1>>))
    /\ UNCHANGED inflight

Publish ==
    /\ now <= GateMaxClock
    /\ publish_results
    /\ UNCHANGED inflight

Unpublish ==
    /\ unpublish_results
    /\ UNCHANGED inflight

Window ==
    \E open \in BOOLEAN :
        /\ toggle_appeal_window(open)
        /\ UNCHANGED inflight

GateSetting ==
    \E key \in {"resultsPublished", "appealWindowOpen"}, value \in {"true", "yes"} :
        /\ update_setting([key |-> key, value |-> value])
        /\ UNCHANGED inflight

GateAppeal ==
    \E member_id \in {NoId, 1}, wanted \in {NoId, 2} :
        /\ seq.appeals < GateMaxAppeals
        /\ submit_appeal([phone |-> Phone10Fmt, member_id |-> member_id,
                          unwanted_department_id |-> 1,
                          wanted_department_id |-> wanted, reason |-> "moved"])
        /\ UNCHANGED inflight

GateNext ==
    GateSubmit \/ Publish \/ Unpublish \/ Window \/ GateSetting \/ GateAppeal

SpecGate == GateInit /\ [][GateNext]_vars

----------------------------------------------------------------------------
(* The appeal specification: one member whose rows are reviewed files      *)
(* appeals of every shape, which the administrator resolves, some of them  *)
(* more than once.                                                         *)

AppealMaxAppeals == 2    \* appeals ever created
AppealMaxRows == 3       \* member_departments rows ever created
AppealMaxClock == 3      \* readings of datetime.now()

AppealSubmit ==
    \E sel \in {<<1>>, <<1, 3>>} :
        /\ seq.members < 1
        /\ submit_form(ValidSubmission(sel))
        /\ UNCHANGED inflight

AppealReview ==
    \E id \in DOMAIN member_departments, status \in {"approved", "rejected"} :
        /\ now <= AppealMaxClock
        /\ update_review_status(id, [status |-> status, admin_note |-> None])
        /\ UNCHANGED inflight

FileAppeal ==
    \E unwanted \in {NoId, 1, 2}, wanted \in {NoId, 1, 2} :
        /\ seq.appeals < AppealMaxAppeals
        /\ submit_appeal([phone |-> Phone10, member_id |-> NoId,
                          unwanted_department_id |-> unwanted,
                          wanted_department_id |-> wanted, reason |-> None])
        /\ UNCHANGED inflight

ResolveAppeal ==
    \E id \in 1..(seq.appeals + 1), status \in {"approved", "rejected", "pending"} :
        /\ now <= AppealMaxClock
        /\ seq.member_departments < AppealMaxRows
        /\ resolve_appeal(id, [status |-> status, admin_response |-> "decided"])
        /\ UNCHANGED inflight

AppealNext == AppealSubmit \/ AppealReview \/ FileAppeal \/ ResolveAppeal

SpecAppeal == Init /\ [][AppealNext]_vars

----------------------------------------------------------------------------
(* The lookup specification: members of one family and of another submit   *)
(* with their phones written in several ways; rows are reviewed and        *)
(* assigned; results are looked up, assignments accepted and appeals filed *)
(* under phones written in several ways.                                   *)

LookupMaxMembers == 2    \* members ever created
LookupMaxRows == 3       \* member_departments rows ever created
LookupMaxAppeals == 1    \* appeals ever created
LookupMaxClock == 2      \* readings of datetime.now()

LookupPhones == {Phone10, Phone10Fmt, PhoneTab, Phone10B}

\* POST /submit, PUT /admin/reviews/{id}, POST /admin/members/{id}/assign,
\* GET /results, POST /results/accept/{id}, POST /appeals
LookupNext ==
    \/ \E phone \in {Phone10Fmt, PhoneTab, Phone10B}, sel \in {<<1>>, <<1, 3>>} :
        /\ seq.members < LookupMaxMembers
        /\ seq.member_departments + Len(sel) <= LookupMaxRows
        /\ submit_form([ValidSubmission(sel) EXCEPT !.phone = phone])
        /\ UNCHANGED inflight
    \/ \E id \in DOMAIN member_departments, status \in {"approved", "rejected"} :
        /\ now <= LookupMaxClock
        /\ update_review_status(id, [status |-> status, admin_note |-> None])
        /\ UNCHANGED inflight
    \/ \E member_id \in DOMAIN members :
        /\ now <= LookupMaxClock
        /\ seq.member_departments < LookupMaxRows
        /\ assign_department(member_id, [department_id |-> 2, admin_note |-> None])
        /\ UNCHANGED inflight
    \/ \E phone \in LookupPhones :
        /\ get_member_results(phone)
        /\ UNCHANGED inflight
    \/ \E id \in DOMAIN member_departments, phone \in LookupPhones :
        /\ now <= LookupMaxClock
        /\ accept_admin_assignment(id, phone)
        /\ UNCHANGED inflight
    \/ \E phone \in LookupPhones, member_id \in {NoId, 1} :
        /\ seq.appeals < LookupMaxAppeals
        /\ submit_appeal([phone |-> phone, member_id |-> member_id,
                          unwanted_department_id |-> 1,
                          wanted_department_id |-> NoId, reason |-> "moved"])
        /\ UNCHANGED inflight

SpecLookup == Init /\ [][LookupNext]_vars

----------------------------------------------------------------------------
(* The defaults specification: a store without settings, or with those the *)
(* migration adds, serves submissions, updates, lookups and appeals while  *)
(* the administrator adds settings.                                        *)

DefaultsMaxRows == 4     \* member_departments rows ever created
DefaultsMaxAppeals == 1  \* appeals ever created
DefaultsMaxClock == 2    \* readings of datetime.now()

DefaultsInit ==
    /\ categories = QuotaCategories
    /\ departments = QuotaDepartments
    /\ members = NoRows
    /\ member_departments = NoRows
    /\ appeals = NoRows
    /\ settings \in {NoSettings, MigratedSettings}
    /\ seq = [members |-> 0, member_departments |-> 0, appeals |-> 0]
    /\ now = 1
    /\ response = Startup
    /\ inflight = {}

DefaultsSelections == {<<5>>, <<1, 3, 5>>, <<1, 2, 3, 4>>, <<1, 3, 5, 6>>}

\* POST /submit, PUT /members/1, GET /results, POST /appeals,
\* POST /admin/publish, POST /admin/appeals/window, PUT /settings
DefaultsNext ==
    \/ \E sel \in DefaultsSelections :
        /\ seq.members < QuotaMaxMembers
        /\ submit_form(ValidSubmission(sel))
        /\ UNCHANGED inflight
    \/ \E sel \in DefaultsSelections :
        /\ seq.member_departments + Len(sel) <= DefaultsMaxRows
        /\ update_member(1, [selected_departments |-> sel])
        /\ UNCHANGED inflight
    \/ /\ get_member_results(Phone10)
       /\ UNCHANGED inflight
    \/ /\ seq.appeals < DefaultsMaxAppeals
       /\ submit_appeal([phone |-> Phone10, member_id |-> NoId,
                         unwanted_department_id |-> 5,
                         wanted_department_id |-> NoId, reason |-> "moved"])
       /\ UNCHANGED inflight
    \/ /\ now <= DefaultsMaxClock
       /\ publish_results
       /\ UNCHANGED inflight
    \/ \E open \in BOOLEAN :
        /\ toggle_appeal_window(open)
        /\ UNCHANGED inflight
    \/ \E data \in {[key |-> "maxDepartments", value |-> "4"],
                    [key |-> "selectionYear", value |-> "2027"]} :
        /\ update_setting(data)
        /\ UNCHANGED inflight

SpecDefaults == DefaultsInit /\ [][DefaultsNext]_vars

----------------------------------------------------------------------------
(* The stamp specification: every request that writes a workflow column of *)
(* a selection, in any order.                                              *)

StampMaxRows == 3        \* member_departments rows ever created
StampMaxClock == 3       \* readings of datetime.now()

\* POST /submit, PUT /members/1, PUT /admin/reviews/{id},
\* POST /admin/reviews/{id}/replace, POST /admin/members/1/assign,
\* POST /admin/reviews/bulk-approve, POST /results/accept/{id}, POST /appeals,
\* PUT /admin/appeals/1
StampNext ==
    \/ /\ seq.members < 1
       /\ submit_form(ValidSubmission(<<1>>))
       /\ UNCHANGED inflight
    \/ /\ seq.member_departments < StampMaxRows
       /\ update_member(1, [selected_departments |-> <<2>>])
       /\ UNCHANGED inflight
    \/ \E id \in DOMAIN member_departments,
          status \in {"approved", "rejected", "pending"} :
        /\ now <= StampMaxClock
        /\ update_review_status(id, [status |-> status, admin_note |-> None])
        /\ UNCHANGED inflight
    \/ \E id \in DOMAIN member_departments :
        /\ now <= StampMaxClock
        /\ seq.member_departments < StampMaxRows
        /\ replace_department(id, [new_department_id |-> 3, admin_note |-> None])
        /\ UNCHANGED inflight
    \/ /\ now <= StampMaxClock
       /\ seq.member_departments < StampMaxRows
       /\ assign_department(1, [department_id |-> 2, admin_note |-> None])
       /\ UNCHANGED inflight
    \/ /\ now <= StampMaxClock
       /\ bulk_approve_pending
       /\ UNCHANGED inflight
    \/ \E id \in DOMAIN member_departments :
        /\ now <= StampMaxClock
        /\ accept_admin_assignment(id, Phone10)
        /\ UNCHANGED inflight
    \/ \E wanted \in {NoId, 3} :
        /\ seq.appeals < MaxAppeals
        /\ submit_appeal([phone |-> Phone10, member_id |-> NoId,
                          unwanted_department_id |-> 1,
                          wanted_department_id |-> wanted, reason |-> None])
        /\ UNCHANGED inflight
    \/ \E status \in {"approved", "rejected"} :
        /\ now <= StampMaxClock
        /\ seq.member_departments < StampMaxRows
        /\ resolve_appeal(1, [status |-> status, admin_response |-> None])
        /\ UNCHANGED inflight

SpecStamp == Init /\ [][StampNext]_vars

----------------------------------------------------------------------------
(* The delete specification: members submit, update and appeal, rows are   *)
(* replaced, and the administrator deletes members, departments and        *)
(* categories.                                                             *)

DeleteMaxMembers == 2    \* members ever created
DeleteMaxRows == 3       \* member_departments rows ever created
DeleteMaxClock == 2      \* readings of datetime.now()

\* POST /submit, PUT /members/{id}, POST /admin/reviews/{id}/replace,
\* POST /appeals, DELETE /members, DELETE /members/purge, DELETE /departments,
\* DELETE /categories
DeleteNext ==
    \/ \E sel \in {<<1>>, <<1, 3>>} :
        /\ seq.members < DeleteMaxMembers
        /\ seq.member_departments + Len(sel) <= DeleteMaxRows
        /\ submit_form(ValidSubmission(sel))
        /\ UNCHANGED inflight
    \/ \E member_id \in DOMAIN members :
        /\ seq.member_departments < DeleteMaxRows
        /\ update_member(member_id, [selected_departments |-> <<2>>])
        /\ UNCHANGED inflight
    \/ \E id \in DOMAIN member_departments, d \in {2, 3} :
        /\ now <= DeleteMaxClock
        /\ seq.member_departments < DeleteMaxRows
        /\ replace_department(id, [new_department_id |-> d, admin_note |-> None])
        /\ UNCHANGED inflight
    \/ \E wanted \in {NoId, 3} :
        /\ seq.appeals < MaxAppeals
        /\ submit_appeal([phone |-> Phone10, member_id |-> NoId,
                          unwanted_department_id |-> 1,
                          wanted_department_id |-> wanted, reason |-> None])
        /\ UNCHANGED inflight
    \/ \E id \in 0..(DeleteMaxMembers + 1) :
        /\ delete_member(id)
        /\ UNCHANGED inflight
    \/ /\ purge_all_members
       /\ UNCHANGED inflight
    \/ \E id \in 1..4 :
        /\ delete_department(id)
        /\ UNCHANGED inflight
    \/ \E id \in 1..2 :
        /\ delete_category(id)
        /\ UNCHANGED inflight

SpecDelete == Init /\ [][DeleteNext]_vars

----------------------------------------------------------------------------
(* The review race specification: two administrators review the same row.  *)
(* Each request runs on a session of its own: it loads the row, assigns    *)
(* the three columns on its copy and commits.  The flush writes an UPDATE  *)
(* that names only the columns whose assigned value differs from the value *)
(* the session loaded.                                                     *)

ReviewMaxSessions == 2   \* review requests in flight at the same time
ReviewMaxClock == 3      \* readings of datetime.now()

\* The row in the store after the UPDATE of a session that loaded it as
\* `loaded` and assigned data.status, data.admin_note and the time.
review_flush(md, loaded, data) ==
    [md EXCEPT
        !.status = IF data.status # loaded.status THEN data.status ELSE @,
        !.admin_note = IF data.admin_note # loaded.admin_note
                       THEN data.admin_note ELSE @,
        !.status_changed_at = IF now # loaded.status_changed_at THEN now ELSE @]

\* update_review_status up to its checks: the row is loaded, or the request
\* is refused.
ReviewRead ==
    \E id \in 1..2, status \in {"approved", "rejected", "pending"},
       note \in {None, "ok"} :
        LET data == [status |-> status, admin_note |-> note]
            s == Cardinality(inflight) + 1
        IN  /\ s <= ReviewMaxSessions
            /\ IF id \notin DOMAIN member_departments \/ status \notin ReviewStatuses
               THEN /\ update_review_status(id, data)
                    /\ UNCHANGED inflight
               ELSE /\ inflight' = inflight \cup
                            {[session |-> s, member_department_id |-> id,
                              data |-> data, loaded |-> member_departments[id]]}
                    /\ UNCHANGED <<db, seq, now, response>>

\* update_review_status from its assignments to db.commit().  An UPDATE that
\* finds the row gone raises StaleDataError.
ReviewWrite ==
    \E r \in inflight :
        LET id == r.member_department_id
            args == [member_department_id |-> id, data |-> r.data]
        IN  /\ now <= ReviewMaxClock
            /\ IF id \notin DOMAIN member_departments
               THEN Reject("update_review_status", args,
                           Error(500, ServerError("StaleDataError")))
               ELSE /\ member_departments' =
                          [member_departments EXCEPT
                              ![id] = review_flush(@, r.loaded, r.data)]
                    /\ now' = now + 1
                    /\ response' = Answer("update_review_status", args, 200, OkId(id))
                    /\ UNCHANGED <<categories, departments, members, appeals,
                                   settings, seq>>
            /\ inflight' = {[q EXCEPT !.session = IF @ > r.session THEN @ - 1 ELSE @] :
                                q \in inflight \ {r}}

ReviewRaceNext ==
    \/ RaceSubmit
    \/ /\ seq.member_departments < 2
       /\ update_member(1, [selected_departments |-> <<2>>])
       /\ UNCHANGED inflight
    \/ ReviewRead
    \/ ReviewWrite

SpecReviewRace == Init /\ [][ReviewRaceNext]_vars

----------------------------------------------------------------------------
(* Properties of the selection workflow.                                   *)

Holds(mds, member_id, department_id) ==
    \E i \in DOMAIN mds : /\ mds[i].member_id = member_id
                          /\ mds[i].department_id = department_id

\* C5: a successful update with selected_departments = S leaves the member
\* with exactly one row per department of S, each of them new, pending, of
\* source member, without note, replacement link or stamp, whatever the rows
\* it held before were; the rows of the other members are the same as before.
C5_UpdateResetsWorkflow ==
    [][(/\ response'.op = "update_member"
        /\ response'.code = 200
        /\ "selected_departments" \in DOMAIN response'.args.data) =>
            LET m == response'.args.member_id
                S == response'.args.data.selected_departments
                mine == {i \in DOMAIN member_departments' :
                            member_departments'[i].member_id = m}
            IN  /\ Cardinality(mine) = Len(S)
                /\ \A k \in DOMAIN S :
                      \E i \in mine : member_departments'[i].department_id = S[k]
                /\ \A i \in mine :
                      /\ i \notin DOMAIN member_departments
                      /\ member_departments'[i].status = "pending"
                      /\ member_departments'[i].source = "member"
                      /\ member_departments'[i].admin_note = None
                      /\ member_departments'[i].replaced_by_id = NoId
                      /\ member_departments'[i].status_changed_at = NoTime
                /\ \A i \in DOMAIN member_departments :
                      member_departments[i].member_id # m =>
                          /\ i \in DOMAIN member_departments'
                          /\ member_departments'[i] = member_departments[i]
                /\ \A i \in DOMAIN member_departments' \ mine :
                      i \in DOMAIN member_departments
      ]_vars

\* An update has succeeded after a row of the member had been reviewed (the
\* clock has moved, yet no row carries a stamp), and another member holds a row.
C5_Witness ==
    /\ response.op = "update_member"
    /\ response.code = 200
    /\ response.args.data.selected_departments # <<>>
    /\ now > 1
    /\ \A i \in DOMAIN member_departments :
          member_departments[i].status_changed_at = NoTime
    /\ \E i \in DOMAIN member_departments :
          member_departments[i].member_id # response.args.member_id

\* C6: a direct review of a row that does not exist is refused as not found;
\* of an existing row with a status other than approved and rejected (pending
\* included), refused as invalid, the row left as it was; with approved or
\* rejected, the row gets that status and the stamp of the request.
C6_ReviewTargets ==
    [][response'.op = "update_review_status" =>
        LET id == response'.args.member_department_id
            data == response'.args.data
        IN  /\ id \notin DOMAIN member_departments =>
                  (response'.code = 404 /\ member_departments' = member_departments)
            /\ (id \in DOMAIN member_departments
                    /\ data.status \notin {"approved", "rejected"}) =>
                  /\ response'.code = 400
                  /\ member_departments' = member_departments
            /\ (id \in DOMAIN member_departments
                    /\ data.status \in {"approved", "rejected"}) =>
                  /\ response'.code = 200
                  /\ member_departments'[id].status = data.status
                  /\ member_departments'[id].status_changed_at = now
                  /\ member_departments[id].status_changed_at < now
      ]_vars

\* A review to pending has been refused on a row that is approved.
C6_Witness ==
    /\ response.op = "update_review_status"
    /\ response.code = 400
    /\ response.args.data.status = "pending"
    /\ response.args.member_department_id \in DOMAIN member_departments
    /\ member_departments[response.args.member_department_id].status = "approved"

\* C7: Replace(R, D) with R or D missing is refused as not found and no row
\* changes; with R and D existing and D not held by R's member, R becomes
\* rejected and stamped, exactly one row N is added, for R's member and D,
\* of source admin, approved, without replacement link, and R links to N.
C7_Replace ==
    [][response'.op = "replace_department" =>
        LET r == response'.args.member_department_id
            d == response'.args.data.new_department_id
        IN  /\ (r \notin DOMAIN member_departments \/ d \notin DOMAIN departments) =>
                  (response'.code = 404 /\ member_departments' = member_departments)
            /\ (/\ r \in DOMAIN member_departments
                /\ d \in DOMAIN departments
                /\ ~Holds(member_departments, member_departments[r].member_id, d)) =>
                  /\ response'.code = 200
                  /\ member_departments'[r].status = "rejected"
                  /\ member_departments'[r].status_changed_at = now
                  /\ \E n \in DOMAIN member_departments' :
                        /\ DOMAIN member_departments' =
                              DOMAIN member_departments \cup {n}
                        /\ n \notin DOMAIN member_departments
                        /\ member_departments'[n].member_id =
                              member_departments[r].member_id
                        /\ member_departments'[n].department_id = d
                        /\ member_departments'[n].source = "admin"
                        /\ member_departments'[n].status = "approved"
                        /\ member_departments'[n].replaced_by_id = NoId
                        /\ member_departments'[r].replaced_by_id = n
      ]_vars

\* A replace has succeeded: the original is rejected and links to the row the
\* answer names, which is an approved admin row.
C7_Witness ==
    /\ response.op = "replace_department"
    /\ response.code = 200
    /\ LET r == response.args.member_department_id
       IN  /\ member_departments[r].status = "rejected"
           /\ member_departments[r].replaced_by_id = response.detail.n
           /\ member_departments[response.detail.n].source = "admin"

\* C8: Replace(R, D) with D already held by R's member (D the department of
\* R itself, for one) fails and the store is as before: R keeps its status,
\* note, stamp and link, and no row is added.
C8_ReplaceHeldDepartment ==
    [][(/\ response'.op = "replace_department"
        /\ response'.args.member_department_id \in DOMAIN member_departments
        /\ response'.args.data.new_department_id \in DOMAIN departments
        /\ Holds(member_departments,
                 member_departments[response'.args.member_department_id].member_id,
                 response'.args.data.new_department_id)) =>
            /\ response'.code \notin {200}
            /\ member_departments' = member_departments
            /\ UNCHANGED <<categories, departments, members, appeals, settings>>
      ]_vars

\* A replace of an approved row by its own department has failed, and the row
\* is still approved.
C8_Witness ==
    /\ response.op = "replace_department"
    /\ response.code = 500
    /\ LET r == response.args.member_department_id
       IN  /\ member_departments[r].department_id = response.args.data.new_department_id
           /\ member_departments[r].status = "approved"

\* C9: whatever submissions, updates, assignments, replacements and appeal
\* approvals have run, and however the two steps of concurrent assignments
\* interleave with them, no two rows of member_departments are for the same
\* member and department.
C9_OneRowPerPair ==
    \A i, j \in DOMAIN member_departments :
        (/\ member_departments[i].member_id = member_departments[j].member_id
         /\ member_departments[i].department_id = member_departments[j].department_id)
            => i = j

\* An assign request that passed its checks has lost the race for its pair:
\* the insert was refused, and the pair is held by exactly one row.
C9_Witness ==
    /\ response.op = "assign_department"
    /\ response.code = 500
    /\ Cardinality({i \in DOMAIN member_departments :
            /\ member_departments[i].member_id = response.args.member_id
            /\ member_departments[i].department_id =
                  response.args.data.department_id}) = 1

\* C10: once a Replace has set replaced_by_id on a row, no later Replace of
\* that row succeeds and the link never points at another row.
C10_ReplacedAtMostOnce ==
    [][\A r \in DOMAIN member_departments :
          member_departments[r].replaced_by_id # NoId =>
              /\ r \in DOMAIN member_departments' =>
                    member_departments'[r].replaced_by_id =
                        member_departments[r].replaced_by_id
              /\ ~(/\ response'.op = "replace_department"
                   /\ response'.code = 200
                   /\ response'.args.member_department_id = r
                   /\ seq'.member_departments # seq.member_departments)
      ]_vars

\* C11: in every reachable state a row whose replaced_by_id is set has status
\* rejected: no operation after the replace moves the row out of rejected.
C11_ReplacedIsRejected ==
    \A i \in DOMAIN member_departments :
        member_departments[i].replaced_by_id # NoId =>
            member_departments[i].status = "rejected"

\* C12: an admin assignment adds a row (of source admin, approved, stamped)
\* exactly when the member exists, the department exists and the member has
\* no row for it, whatever its status; it is refused as not found when the
\* member or the department is missing and as a conflict when the pair has a
\* row, and a refused assignment leaves every row as it was.
C12_AssignIffFree ==
    [][response'.op = "assign_department" =>
        LET m == response'.args.member_id
            d == response'.args.data.department_id
            free == /\ m \in DOMAIN members
                    /\ d \in DOMAIN departments
                    /\ ~Holds(member_departments, m, d)
        IN  /\ free <=> response'.code = 200
            /\ free =>
                  \E n \in DOMAIN member_departments' :
                      /\ n \notin DOMAIN member_departments
                      /\ DOMAIN member_departments' = DOMAIN member_departments \cup {n}
                      /\ member_departments'[n].member_id = m
                      /\ member_departments'[n].department_id = d
                      /\ member_departments'[n].source = "admin"
                      /\ member_departments'[n].status = "approved"
                      /\ member_departments'[n].status_changed_at = now
                      /\ \A i \in DOMAIN member_departments :
                            member_departments'[i] = member_departments[i]
            /\ ~free =>
                  /\ member_departments' = member_departments
                  /\ response'.code =
                        IF m \in DOMAIN members /\ d \in DOMAIN departments
                        THEN 400 ELSE 404
      ]_vars

\* An assignment has been refused as a conflict with a row that is rejected.
C12_Witness ==
    /\ response.op = "assign_department"
    /\ response.code = 400
    /\ \E i \in DOMAIN member_departments :
          /\ member_departments[i].member_id = response.args.member_id
          /\ member_departments[i].department_id = response.args.data.department_id
          /\ member_departments[i].status = "rejected"

----------------------------------------------------------------------------
(* Properties of bulk approval and of acceptance.                          *)

Unreviewed(mds) == {i \in DOMAIN mds : mds[i].status \in {"pending", None}}

\* C13: a bulk approval sets every row that is pending (or without status)
\* to approved, stamps it and answers their number; every approved or
\* rejected row is left as it was; afterwards no row is pending; and a bulk
\* approval that follows another one directly answers 0 and changes no row.
C13_BulkApprove ==
    [][response'.op = "bulk_approve_pending" =>
        /\ response'.code = 200
        /\ response'.detail.n = Cardinality(Unreviewed(member_departments))
        /\ DOMAIN member_departments' = DOMAIN member_departments
        /\ \A i \in Unreviewed(member_departments) :
              member_departments'[i] =
                  [member_departments[i] EXCEPT !.status = "approved",
                                                !.status_changed_at = now]
        /\ \A i \in DOMAIN member_departments \ Unreviewed(member_departments) :
              member_departments'[i] = member_departments[i]
        /\ Unreviewed(member_departments') = {}
        /\ response.op = "bulk_approve_pending" =>
              (response'.detail.n = 0 /\ member_departments' = member_departments)
      ]_vars

\* A second bulk approval has answered 0, over a table with a rejected row
\* and a member's row approved in bulk (a direct review would have left its
\* note).
C13_Witness ==
    /\ response.op = "bulk_approve_pending"
    /\ response.detail.n = 0
    /\ \E i, j \in DOMAIN member_departments :
          /\ member_departments[i].status = "rejected"
          /\ member_departments[j].status = "approved"
          /\ member_departments[j].source = "member"
          /\ member_departments[j].admin_note = None
          /\ member_departments[j].status_changed_at = now - 2

\* C14: the acceptance of an existing row is refused as forbidden when the
\* phone given, normalized, differs from the normalized phone of the member
\* of the row; with a matching phone it is refused as invalid when the source
\* of the row is not admin; a refused acceptance leaves the row as it was.
C14_AcceptRefusals ==
    [][(/\ response'.op = "accept_admin_assignment"
        /\ response'.args.member_department_id \in DOMAIN member_departments) =>
        LET md == member_departments[response'.args.member_department_id]
            match == normalize(response'.args.phone) =
                        normalize(members[md.member_id].phone)
        IN  /\ ~match => response'.code = 403
            /\ (match /\ md.source # "admin") => response'.code = 400
            /\ (~match \/ md.source # "admin") =>
                  member_departments' = member_departments
      ]_vars

\* The member of a row of source member has given the stored phone in another
\* notation and has been refused as invalid.
C14_Witness ==
    /\ response.op = "accept_admin_assignment"
    /\ response.code = 400
    /\ LET md == member_departments[response.args.member_department_id]
       IN  /\ md.source = "member"
           /\ members[md.member_id].phone # response.args.phone

\* C15: a successful acceptance appends the mark to the admin_note of the row
\* and stamps it; the status, source, department, member and replacement link
\* of the row, every other row and every other table are as before.
C15_AcceptFrame ==
    [][(response'.op = "accept_admin_assignment" /\ response'.code = 200) =>
        LET id == response'.args.member_department_id
            old == member_departments[id]
        IN  /\ member_departments' =
                  [member_departments EXCEPT ![id] =
                      [old EXCEPT
                          !.admin_note = member_departments'[id].admin_note,
                          !.status_changed_at = now]]
            /\ member_departments'[id].admin_note =
                  (IF old.admin_note = None THEN "" ELSE old.admin_note)
                      \o " [Accepted by member]"
            /\ UNCHANGED <<categories, departments, members, appeals, settings>>
      ]_vars

\* An admin row that a review had rejected has been accepted by its member,
\* and is still rejected.
C15_Witness ==
    /\ response.op = "accept_admin_assignment"
    /\ response.code = 200
    /\ LET md == member_departments[response.args.member_department_id]
       IN  /\ md.status = "rejected"
           /\ md.source = "admin"
           /\ md.status_changed_at = now - 1

----------------------------------------------------------------------------
(* Properties of appeals.                                                  *)

Published == "resultsPublished" \in DOMAIN settings /\ settings["resultsPublished"] = "true"
WindowOpen == "appealWindowOpen" \in DOMAIN settings /\ settings["appealWindowOpen"] = "true"

\* C16: an appeal is created only where resultsPublished is "true" and
\* appealWindowOpen is "true".  Where results are not published (the setting
\* absent or of another value) the request is refused with the reason 'not
\* yet published'; where they are published and the window is not open (absent
\* or of another value), with the reason 'window closed'; and a refused
\* request creates no appeal.
C16_AppealGate ==
    [][/\ DOMAIN appeals' # DOMAIN appeals => (Published /\ WindowOpen)
       /\ response'.op = "submit_appeal" =>
            /\ ~Published =>
                  /\ response'.code = 400
                  /\ response'.detail.text = "Results are not yet published"
                  /\ appeals' = appeals
            /\ (Published /\ ~WindowOpen) =>
                  /\ response'.code = 400
                  /\ response'.detail.text = "Appeal window is currently closed"
                  /\ appeals' = appeals
      ]_vars

\* After an appeal was filed, results are still published, the window has no
\* setting "true" any more, and a further appeal has been refused as closed.
C16_Witness ==
    /\ response.op = "submit_appeal"
    /\ response.detail.text = "Appeal window is currently closed"
    /\ Published
    /\ ~WindowOpen
    /\ appeals # NoRows

\* The rows of mds that the member holds for the department.
HeldRows(mds, member_id, department_id) ==
    {i \in DOMAIN mds : /\ mds[i].member_id = member_id
                        /\ mds[i].department_id = department_id}

\* The step is the approval of an existing appeal.
Approving ==
    /\ response'.op = "resolve_appeal"
    /\ response'.args.appeal_id \in DOMAIN appeals
    /\ response'.args.data.status = "approved"

\* C17: the approval of an appeal with an unwanted department rejects the
\* member's row for that department if it is approved, with the note "Removed
\* via approved appeal" and a new stamp; a row for it that is pending or
\* rejected, and every other row, is left as it was; with or without such a
\* row the approval succeeds.
C17_ApproveUnwanted ==
    [][(Approving
            /\ appeals[response'.args.appeal_id].unwanted_department_id # NoId) =>
        LET a == appeals[response'.args.appeal_id]
            hit == {i \in HeldRows(member_departments, a.member_id,
                                   a.unwanted_department_id) :
                        member_departments[i].status = "approved"}
        IN  /\ response'.code = 200
            /\ appeals'[response'.args.appeal_id].status = "approved"
            /\ \A i \in hit :
                  /\ member_departments'[i] =
                        [member_departments[i] EXCEPT
                            !.status = "rejected",
                            !.admin_note = "Removed via approved appeal",
                            !.status_changed_at = now]
                  /\ member_departments[i].status_changed_at # now
            /\ \A i \in DOMAIN member_departments \ hit :
                  member_departments'[i] = member_departments[i]
      ]_vars

\* An appeal against a department whose row is pending has been approved, and
\* the row is still pending.
C17_Witness ==
    /\ response.op = "resolve_appeal"
    /\ response.code = 200
    /\ response.args.data.status = "approved"
    /\ LET a == appeals[response.args.appeal_id]
       IN  /\ a.unwanted_department_id # NoId
           /\ \E i \in HeldRows(member_departments, a.member_id,
                                a.unwanted_department_id) :
                 member_departments[i].status = "pending"

\* C18, as stated: the approval of an appeal with a wanted department adds an
\* approved admin row with the note "Added via approved appeal" if the member
\* has no row for it; if the member has a row for it, in any status, that row
\* is left exactly as it is and no row is added; the appeal is approved and
\* stamped either way.
C18_ApproveWantedAsStated ==
    [][(Approving
            /\ appeals[response'.args.appeal_id].wanted_department_id # NoId) =>
        LET a == appeals[response'.args.appeal_id]
            held == HeldRows(member_departments, a.member_id, a.wanted_department_id)
        IN  /\ response'.code = 200
            /\ appeals'[response'.args.appeal_id].status = "approved"
            /\ appeals'[response'.args.appeal_id].resolved_at = now
            /\ held = {} =>
                  \E n \in DOMAIN member_departments' :
                      /\ n \notin DOMAIN member_departments
                      /\ DOMAIN member_departments' = DOMAIN member_departments \cup {n}
                      /\ member_departments'[n].member_id = a.member_id
                      /\ member_departments'[n].department_id = a.wanted_department_id
                      /\ member_departments'[n].source = "admin"
                      /\ member_departments'[n].status = "approved"
                      /\ member_departments'[n].admin_note = "Added via approved appeal"
            /\ held # {} =>
                  /\ DOMAIN member_departments' = DOMAIN member_departments
                  /\ \A i \in held : member_departments'[i] = member_departments[i]
      ]_vars

\* C18, amended: as stated, except that a row the member has for the wanted
\* department is left exactly as it is only if the appeal is not also against
\* that department: where unwanted and wanted are the same department and the
\* row is approved, the row is rejected (as C17 says) and no row is added.
C18_ApproveWanted ==
    [][(Approving
            /\ appeals[response'.args.appeal_id].wanted_department_id # NoId) =>
        LET a == appeals[response'.args.appeal_id]
            held == HeldRows(member_departments, a.member_id, a.wanted_department_id)
        IN  /\ response'.code = 200
            /\ appeals'[response'.args.appeal_id].status = "approved"
            /\ appeals'[response'.args.appeal_id].resolved_at = now
            /\ held = {} =>
                  \E n \in DOMAIN member_departments' :
                      /\ n \notin DOMAIN member_departments
                      /\ DOMAIN member_departments' = DOMAIN member_departments \cup {n}
                      /\ member_departments'[n].member_id = a.member_id
                      /\ member_departments'[n].department_id = a.wanted_department_id
                      /\ member_departments'[n].source = "admin"
                      /\ member_departments'[n].status = "approved"
                      /\ member_departments'[n].admin_note = "Added via approved appeal"
            /\ held # {} =>
                  /\ DOMAIN member_departments' = DOMAIN member_departments
                  /\ \A i \in held :
                        IF a.unwanted_department_id = a.wanted_department_id
                              /\ member_departments[i].status = "approved"
                        THEN member_departments'[i].status = "rejected"
                        ELSE member_departments'[i] = member_departments[i]
      ]_vars

\* An appeal for a department the member holds a rejected row for has been
\* approved: the row is still rejected and the member has no other row for it.
C18_Witness ==
    /\ response.op = "resolve_appeal"
    /\ response.code = 200
    /\ response.args.data.status = "approved"
    /\ LET a == appeals[response.args.appeal_id]
       IN  /\ a.wanted_department_id # NoId
           /\ a.unwanted_department_id # a.wanted_department_id
           /\ \E i \in DOMAIN member_departments :
                 /\ HeldRows(member_departments, a.member_id,
                             a.wanted_department_id) = {i}
                 /\ member_departments[i].status = "rejected"
                 /\ member_departments[i].source = "member"
                 /\ member_departments[i].admin_note = None

\* C19: the rejection of an appeal writes the status rejected, the response
\* and the stamp of that appeal and nothing else: no row of member_departments
\* is created, deleted or changed, whatever departments the appeal names.
C19_RejectFrame ==
    [][(/\ response'.op = "resolve_appeal"
        /\ response'.args.appeal_id \in DOMAIN appeals
        /\ response'.args.data.status = "rejected") =>
            /\ response'.code = 200
            /\ member_departments' = member_departments
            /\ appeals' = [appeals EXCEPT ![response'.args.appeal_id] =
                              [@ EXCEPT !.status = "rejected",
                                        !.admin_response =
                                            response'.args.data.admin_response,
                                        !.resolved_at = now]]
            /\ UNCHANGED <<categories, departments, members, settings>>
      ]_vars

\* An appeal against a department whose row is approved, for a department the
\* member does not hold, has been rejected.
C19_Witness ==
    /\ response.op = "resolve_appeal"
    /\ response.code = 200
    /\ response.args.data.status = "rejected"
    /\ LET a == appeals[response.args.appeal_id]
       IN  /\ a.status = "rejected"
           /\ a.unwanted_department_id # NoId
           /\ a.wanted_department_id # NoId
           /\ \E i \in HeldRows(member_departments, a.member_id,
                                a.unwanted_department_id) :
                 member_departments[i].status = "approved"
           /\ HeldRows(member_departments, a.member_id, a.wanted_department_id) = {}

\* C20: an appeal that is approved or rejected keeps its status, and a
\* resolve_appeal on it changes no row of member_departments.
C20_ResolvedOnce ==
    [][\A a \in DOMAIN appeals :
          appeals[a].status # "pending" =>
              /\ appeals'[a].status = appeals[a].status
              /\ (response'.op = "resolve_appeal" /\ response'.args.appeal_id = a) =>
                    member_departments' = member_departments
      ]_vars

----------------------------------------------------------------------------
(* Properties of publication.                                              *)

\* The settings other than those in keys are the same before and after, and
\* no setting but those in keys is added.
OnlySettings(keys) ==
    /\ DOMAIN settings \subseteq DOMAIN settings'
    /\ DOMAIN settings' \subseteq DOMAIN settings \cup keys
    /\ \A k \in DOMAIN settings \ keys : settings'[k] = settings[k]
    /\ UNCHANGED <<categories, departments, members, member_departments, appeals>>

PublishFrame ==
    response'.op = "publish_results" =>
        /\ OnlySettings({"resultsPublished", "publishedAt"})
        /\ {"resultsPublished", "publishedAt"} \subseteq DOMAIN settings'
        /\ settings'["resultsPublished"] = "true"
        /\ settings'["publishedAt"] = "T" \o ToString(now)

WindowFrame ==
    response'.op = "toggle_appeal_window" =>
        /\ OnlySettings({"appealWindowOpen"})
        /\ "appealWindowOpen" \in DOMAIN settings'
        /\ settings'["appealWindowOpen"] =
              IF response'.args.open THEN "true" ELSE "false"

----------------------------------------------------------------------------
(* Properties of the results lookup.                                       *)

\* C22: the answer of a lookup lists exactly the members whose normalized
\* phone is the normalized query; each of them is listed with all its rows,
\* and every row is in exactly one of approved_departments,
\* pending_departments and rejected_departments: the one of its status, a
\* row without status counting as pending.
C22_ResultsPartition ==
    [][response'.op = "get_member_results" =>
        LET body == response'.body
        IN  /\ DOMAIN body.members =
                  {m \in DOMAIN members :
                      normalize(members[m].phone) = normalize(response'.args.phone)}
            /\ \A m \in DOMAIN body.members :
                  LET data == body.members[m]
                      approved == DOMAIN data.approved_departments
                      pending == DOMAIN data.pending_departments
                      rejected == DOMAIN data.rejected_departments
                  IN  /\ DOMAIN data.all_selections = RowsOf(m)
                      /\ approved \cup pending \cup rejected = RowsOf(m)
                      /\ approved \cap pending = {}
                      /\ approved \cap rejected = {}
                      /\ pending \cap rejected = {}
                      /\ \A i \in RowsOf(m) :
                            /\ i \in approved <=> member_departments[i].status = "approved"
                            /\ i \in rejected <=> member_departments[i].status = "rejected"
                            /\ i \in pending <=>
                                  member_departments[i].status \in {"pending", None}
                            /\ data.all_selections[i].department_id =
                                  member_departments[i].department_id
      ]_vars

\* A lookup under a phone written differently from the way either member of
\* the family wrote it: both are listed, one of them with an approved and a
\* pending row.
C22_Witness ==
    /\ response.op = "get_member_results"
    /\ response.args.phone = Phone10
    /\ Cardinality(DOMAIN response.body.members) = 2
    /\ \E m \in DOMAIN response.body.members :
          /\ members[m].phone # Phone10
          /\ DOMAIN response.body.members[m].approved_departments # {}
          /\ DOMAIN response.body.members[m].pending_departments # {}

\* A phone with all its whitespace and hyphens taken out.
Squash(phone) == SelectSeq(phone, LAMBDA c : c \notin Whitespace \cup {"-"})

SamePhone(p, q) == Squash(p) = Squash(q)

\* C23: two phones that differ only in whitespace and hyphens are the same
\* phone to the lookup, which lists the members whose phone is the query's;
\* to acceptance, which refuses with 403 only a phone that is not the row
\* owner's; and to appeal submission, which refuses with 403 only a phone
\* that is not the named member's and otherwise files the appeal for a
\* member whose phone is the request's.
C23_PhonesAlike ==
    [][/\ response'.op = "get_member_results" =>
            DOMAIN response'.body.members =
                {m \in DOMAIN members :
                    SamePhone(members[m].phone, response'.args.phone)}
       /\ (/\ response'.op = "accept_admin_assignment"
           /\ response'.args.member_department_id \in DOMAIN member_departments) =>
            LET md == member_departments[response'.args.member_department_id]
            IN  response'.code = 403 <=>
                    ~SamePhone(members[md.member_id].phone, response'.args.phone)
       /\ (/\ response'.op = "submit_appeal"
           /\ response'.args.member_id \in DOMAIN members) =>
            (response'.code = 403 <=>
                ~SamePhone(members[response'.args.member_id].phone,
                           response'.args.phone))
       /\ (/\ response'.op = "submit_appeal"
           /\ response'.args.member_id = NoId) =>
            /\ response'.code = 404 <=>
                  ~\E m \in DOMAIN members :
                        SamePhone(members[m].phone, response'.args.phone)
            /\ \A a \in DOMAIN appeals' \ DOMAIN appeals :
                  SamePhone(members[appeals'[a].member_id].phone, response'.args.phone)
      ]_vars

\* The global cap is 3 where there is no maxDepartments setting: a list of
\* more than 3 departments is refused with the message that names 3, by
\* submit and by update, and a shorter one is not refused for its length.
DefaultCap ==
    /\ (response'.op = "submit_form" /\ ~HasSetting("maxDepartments")) =>
          (response'.detail = MsgTooMany(3)
              <=> Len(response'.args.selected_departments) > 3)
    /\ (/\ response'.op = "update_member"
        /\ ~HasSetting("maxDepartments")
        /\ response'.args.member_id \in DOMAIN members) =>
          (response'.detail = MsgTooMany(3)
              <=> Len(response'.args.data.selected_departments) > 3)

\* Without a resultsPublished setting an appeal is refused as not published.
DefaultGate ==
    (response'.op = "submit_appeal" /\ ~HasSetting("resultsPublished")) =>
        /\ response'.code = 400
        /\ response'.detail.text = "Results are not yet published"
        /\ UNCHANGED db

----------------------------------------------------------------------------
(* Properties of the workflow columns over all requests.                   *)

\* The requests that assign a status to rows that exist.
StatusWriters ==
    {"update_review_status", "replace_department", "bulk_approve_pending",
     "resolve_appeal"}

\* A row whose status differs after the step is stamped with the time of the
\* step; a row in the table after the step has a stamp exactly if its status
\* is approved or rejected.
StampFollowsStatus ==
    /\ \A i \in DOMAIN member_departments \cap DOMAIN member_departments' :
          member_departments'[i].status # member_departments[i].status =>
              member_departments'[i].status_changed_at = now
    /\ \A i \in DOMAIN member_departments' :
          member_departments'[i].status_changed_at # NoTime
              <=> member_departments'[i].status \in {"approved", "rejected"}

\* The rows whose stamp differs after the step.
Restamped ==
    {i \in DOMAIN member_departments \cap DOMAIN member_departments' :
        member_departments'[i].status_changed_at #
            member_departments[i].status_changed_at}

\* C25, as stated: a request that writes the status of a row stamps it, a row
\* has a stamp exactly if its status was written to approved or rejected, and
\* the stamp of a row changes only in a request that writes its status.
C25_StampTracksStatusAsStated ==
    [][/\ StampFollowsStatus
       /\ Restamped # {} => response'.op \in StatusWriters
      ]_vars

\* C25, amended: as stated, except that the acceptance of an assignment by
\* the member stamps the row again and leaves its status as it is; the row it
\* stamps is an administrator's, which has a stamp already.
C25_StampTracksStatus ==
    [][/\ StampFollowsStatus
       /\ Restamped # {} =>
            \/ response'.op \in StatusWriters
            \/ /\ response'.op = "accept_admin_assignment"
               /\ Restamped = {response'.args.member_department_id}
               /\ \A i \in Restamped :
                     /\ member_departments'[i].status = member_departments[i].status
                     /\ member_departments[i].status_changed_at # NoTime
                     /\ member_departments'[i].status_changed_at = now
      ]_vars

\* The member has accepted the row that replaces a rejected one: the row is
\* still approved and its stamp is now later than that of the replacement.
C25_Witness ==
    /\ response.op = "accept_admin_assignment"
    /\ response.code = 200
    /\ \E i, j \in DOMAIN member_departments :
          /\ j = response.args.member_department_id
          /\ member_departments[i].replaced_by_id = j
          /\ member_departments[i].status = "rejected"
          /\ member_departments[j].status = "approved"
          /\ member_departments[j].status_changed_at = now - 1
          /\ member_departments[i].status_changed_at # NoTime
          /\ member_departments[i].status_changed_at <
                member_departments[j].status_changed_at

----------------------------------------------------------------------------
(* Properties of the deletes.                                              *)

\* No selection names a member or a department that is not there, and no
\* appeal names a member that is not there.
Referential ==
    /\ \A i \in DOMAIN member_departments :
          /\ member_departments[i].member_id \in DOMAIN members
          /\ member_departments[i].department_id \in DOMAIN departments
    /\ \A a \in DOMAIN appeals : appeals[a].member_id \in DOMAIN members

MemberGone(id) ==
    /\ id \notin DOMAIN members'
    /\ \A i \in DOMAIN member_departments' : member_departments'[i].member_id # id
    /\ \A a \in DOMAIN appeals' : appeals'[a].member_id # id

\* C26: after every request no selection or appeal names a member or a
\* department that is gone.  The delete of a member removes the member with
\* its selections and appeals, the purge removes all of them; the delete of
\* a category removes no department: those of the category become
\* uncategorized.  The delete of a department removes the department with
\* its selections; it is refused as a whole, by the store, only where a row
\* of another department names one of those selections as its replacement.
C26_DeletesCascade ==
    [][/\ Referential'
       /\ (response'.op = "delete_member" /\ response'.args.id \in DOMAIN members) =>
            /\ response'.code = 200
            /\ MemberGone(response'.args.id)
            /\ DOMAIN members' = DOMAIN members \ {response'.args.id}
       /\ response'.op = "purge_all_members" =>
            /\ response'.code = 200
            /\ DOMAIN members' = {}
            /\ DOMAIN member_departments' = {}
            /\ DOMAIN appeals' = {}
       /\ (/\ response'.op = "delete_category"
           /\ response'.args.id \in DOMAIN categories) =>
            /\ response'.code = 200
            /\ response'.args.id \notin DOMAIN categories'
            /\ DOMAIN departments' = DOMAIN departments
            /\ \A d \in DOMAIN departments :
                  departments'[d].category_id =
                      IF departments[d].category_id = response'.args.id
                      THEN NoId ELSE departments[d].category_id
            /\ UNCHANGED <<members, member_departments, appeals>>
       /\ (/\ response'.op = "delete_department"
           /\ response'.args.id \in DOMAIN departments) =>
            \/ /\ response'.code = 200
               /\ response'.args.id \notin DOMAIN departments'
               /\ \A i \in DOMAIN member_departments' :
                     member_departments'[i].department_id # response'.args.id
               /\ \A i \in DOMAIN member_departments :
                     member_departments[i].department_id # response'.args.id =>
                         /\ i \in DOMAIN member_departments'
                         /\ member_departments'[i] = member_departments[i]
            \/ /\ response'.code = 500
               /\ UNCHANGED db
               /\ \E i, j \in DOMAIN member_departments :
                     /\ member_departments[i].replaced_by_id = j
                     /\ member_departments[j].department_id = response'.args.id
                     /\ member_departments[i].department_id # response'.args.id
      ]_vars

\* The department of the member's second selection has been deleted: that
\* selection is gone, the first is still there.
C26_Witness ==
    /\ response.op = "delete_department"
    /\ response.code = 200
    /\ response.args.id = 3
    /\ seq.member_departments = 2
    /\ DOMAIN member_departments = {1}
    /\ member_departments[1].department_id = 1
    /\ DOMAIN members = {1}

\* The row a row is replaced by, in a table.
Link(mds, i) == mds[i].replaced_by_id

\* The rows met by following the links from row i, in at most n steps.
RECURSIVE Followers(_, _, _)
Followers(mds, i, n) ==
    IF n = 0 \/ Link(mds, i) = NoId \/ Link(mds, i) \notin DOMAIN mds
    THEN {}
    ELSE {Link(mds, i)} \cup Followers(mds, Link(mds, i), n - 1)

\* C27: the replaced_by_id links never form a cycle.  The row a link names
\* exists, belongs to the same member, was created after the row that names
\* it and does not name that row in turn; a link is set only by the Replace
\* of the row that bears it, to the row that Replace creates.
C27_LinksAcyclic ==
    [][/\ \A i \in DOMAIN member_departments' :
            LET j == Link(member_departments', i)
            IN  /\ i \notin Followers(member_departments', i,
                                      Cardinality(DOMAIN member_departments'))
                /\ j # NoId =>
                      /\ j \in DOMAIN member_departments'
                      /\ member_departments'[j].member_id =
                            member_departments'[i].member_id
                      /\ j > i
                      /\ Link(member_departments', j) # i
       /\ \A i \in DOMAIN member_departments \cap DOMAIN member_departments' :
            Link(member_departments', i) # Link(member_departments, i) =>
                /\ response'.op = "replace_department"
                /\ response'.args.member_department_id = i
                /\ Link(member_departments', i) \notin DOMAIN member_departments
                /\ Link(member_departments', i) = seq'.member_departments
      ]_vars

\* A chain of two links: the first row was replaced by the second, and the
\* second by the third.
C27_Witness ==
    /\ response.op = "replace_department"
    /\ response.code = 200
    /\ \E i, j, k \in DOMAIN member_departments :
          /\ Link(member_departments, i) = j
          /\ Link(member_departments, j) = k
          /\ Link(member_departments, k) = NoId

----------------------------------------------------------------------------
(* Properties of the caps over the approved selections.                    *)

\* The member's approved rows.
ApprovedRows(m) ==
    {i \in RowsOf(m) : member_departments[i].status = "approved"}

\* C28: each member's approved rows number at most maxDepartments, and
\* those of the departments of one category at most that category's
\* max_selections, whichever requests have been served: administrator
\* assignments, replacements and appeal approvals included.
C28_ApprovedWithinCaps ==
    \A m \in DOMAIN members :
        /\ Cardinality(ApprovedRows(m)) <= max_departments
        /\ \A c \in DOMAIN categories :
              Cardinality({i \in ApprovedRows(m) :
                  departments[member_departments[i].department_id].category_id = c})
                  <= categories[c].max_selections

----------------------------------------------------------------------------
(* Properties of the life of a selection.                                  *)

Decided == {"approved", "rejected"}

\* C29: a row, known by its id, whose status is approved or rejected is
\* approved or rejected after every request that leaves it in the table:
\* review, replace, assign, bulk approval, acceptance and appeals never
\* make it pending or without status again; and every row that is pending
\* or without status is a member's own.
C29_DecidedStaysDecided ==
    [][/\ \A i \in DOMAIN member_departments \cap DOMAIN member_departments' :
            member_departments[i].status \in Decided =>
                member_departments'[i].status \in Decided
       /\ \A i \in DOMAIN member_departments' :
            member_departments'[i].status \notin Decided =>
                /\ member_departments'[i].source = "member"
                /\ member_departments'[i].status = "pending"
       /\ \A i \in DOMAIN member_departments' \ DOMAIN member_departments :
            i > seq.member_departments
      ]_vars

\* A review asking for pending on a row already decided has been refused.
C29_Witness ==
    /\ response.op = "update_review_status"
    /\ response.args.data.status = "pending"
    /\ response.code = 400
    /\ response.args.member_department_id \in DOMAIN member_departments
    /\ member_departments[response.args.member_department_id].status \in Decided
    /\ \E i \in DOMAIN member_departments :
          member_departments[i].source = "admin"

----------------------------------------------------------------------------
(* Properties of concurrent reviews.                                       *)

\* C30: of two reviews of one row that both load the row and then write and
\* commit, the one that commits last decides the row: after its commit the
\* status and the admin_note of the row are both the ones it asked for,
\* never the status of one request with the note of the other.
C30_LastCommitWins ==
    [][(response'.op = "update_review_status" /\ response'.code = 200) =>
        LET id == response'.args.member_department_id
            data == response'.args.data
        IN  /\ member_departments'[id].status = data.status
            /\ member_departments'[id].admin_note = data.admin_note
      ]_vars

=============================================================================
